---- MODULE Spec2Model ----
(***************************************************************************)
(* Model of the ente CLI upload engine: the chunked stream encryption of   *)
(* a file (uploader.EncryptFile), the per-file upload pipelines            *)
(* (Uploader.uploadFile, UploadSingleFile under the watcher), the S3       *)
(* single/multipart upload, the catalog commit and the deduplication       *)
(* store (fileHashes bucket).                                              *)
(***************************************************************************)
EXTENDS Integers, Sequences, FiniteSets, TLC

(***************************************************************************)
(* Sizes.  The 4 MiB read buffer and the 20 MiB multipart part are scaled  *)
(* down; every other size is derived from them.                            *)
(***************************************************************************)
\* encryptionBufferSize (4 MiB in the source), scaled
encryptionBufferSize == 2
\* multipartPartSize / DefaultMultipartMin (20 MiB in the source), scaled to
\* the encrypted size of a file that fills the read buffer exactly
multipartPartSize == 36
\* number of pipeline runs started one after the other
MaxRuns == 2

\* crypto.XChaCha20Poly1305IetfABYTES: 1 tag byte + 16 byte authenticator
XChaCha20Poly1305IetfABYTES == 17
\* length of the stream header returned by NewEncryptor
StreamHeaderBytes == 24
\* crypto.TagMessage
TagMessage == 0
\* crypto.TagFinal
TagFinal == 3

DefaultMultipartMin == multipartPartSize

\* plaintext sizes: below one buffer, one buffer, a multiple, a multiple + rest
MaxLen == 2 * encryptionBufferSize + 1
Bytes == {0, 1}
Keys == {1, 2}
Headers == {1, 2}

Min(a, b) == IF a < b THEN a ELSE b

RECURSIVE SeqsUpTo(_)
SeqsUpTo(n) ==
    IF n = 0 THEN {<<>>}
    ELSE LET S == SeqsUpTo(n - 1)
         IN  S \cup {Append(s, b) : s \in {t \in S : Len(t) = n - 1}, b \in Bytes}

Plaintexts == SeqsUpTo(MaxLen)

RECURSIVE Concat(_)
Concat(ss) == IF ss = <<>> THEN <<>> ELSE Head(ss) \o Concat(Tail(ss))

(***************************************************************************)
(* The chunked stream cipher (internal/crypto, secretstream).  A cipher    *)
(* byte is the tuple <<kind, key, header, counter, index, value>>: the     *)
(* encrypted tag byte ("t"), an encrypted data byte ("d") or a byte of     *)
(* the authenticator ("m"), each bound to the key, the stream header and   *)
(* the position of the chunk in the stream.                                *)
(***************************************************************************)
RECURSIVE DigestOf(_)
DigestOf(msg) ==
    IF msg = <<>> THEN 0
    ELSE (Head(msg) + 1) + 3 * DigestOf(Tail(msg))

Mac(msg, tag) == tag + 4 * DigestOf(msg)

NewEncryptor(key, hdr) == [key |-> key, hdr |-> hdr, ctr |-> 1]

NewDecryptor(key, hdr) == [key |-> key, hdr |-> hdr, ctr |-> 1]

HeaderBytes(hdr) == [i \in 1..StreamHeaderBytes |-> <<"h", 0, hdr, 0, i, 0>>]

\* encryptor.Push(plaintext, tag): len(plaintext) + 17 cipher bytes
Push(st, msg, tag) ==
    [out |-> <<<<"t", st.key, st.hdr, st.ctr, 0, tag>>>>
             \o [i \in 1..Len(msg) |-> <<"d", st.key, st.hdr, st.ctr, i, msg[i]>>]
             \o [j \in 1..(XChaCha20Poly1305IetfABYTES - 1) |->
                    <<"m", st.key, st.hdr, st.ctr, j, Mac(msg, tag)>>],
     st  |-> [st EXCEPT !.ctr = st.ctr + 1]]

\* decryptor.Pull(ciphertext): fails on a short chunk or a failed authentication
Pull(st, c) ==
    IF Len(c) < XChaCha20Poly1305IetfABYTES
    THEN [ok |-> FALSE, msg |-> <<>>, tag |-> TagMessage, st |-> st]
    ELSE LET n   == Len(c) - XChaCha20Poly1305IetfABYTES
             tag == c[1][6]
             msg == [i \in 1..n |-> c[i + 1][6]]
             good == /\ c[1] = <<"t", st.key, st.hdr, st.ctr, 0, tag>>
                     /\ \A i \in 1..n :
                           c[i + 1] = <<"d", st.key, st.hdr, st.ctr, i, msg[i]>>
                     /\ \A j \in 1..(XChaCha20Poly1305IetfABYTES - 1) :
                           c[n + 1 + j] = <<"m", st.key, st.hdr, st.ctr, j, Mac(msg, tag)>>
         IN  IF good
             THEN [ok |-> TRUE, msg |-> msg, tag |-> tag,
                   st |-> [st EXCEPT !.ctr = st.ctr + 1]]
             ELSE [ok |-> FALSE, msg |-> <<>>, tag |-> TagMessage, st |-> st]

VARIABLES
    plaintext,      \* content of the input file of EncryptFile
    readerKind,     \* how reader.Read delivers the content
    enc,            \* EncryptFile: its locals and its position
    pushLog,        \* the calls of encryptor.Push so far: <<[n, tag], ...>>
    outFile,        \* bytes of the output file on disk
    dec,            \* decryptFile (encryptor_test.go): locals and position
    run,            \* the per-file pipeline in progress: its locals and position
    hashStore,      \* fileHashes bucket: content hash -> stored value
    objects,        \* object storage: object key -> bytes of the object
    catalog,        \* files committed by create_file, by file id
    createCalls,    \* number of create_file requests sent so far
    addCalls,       \* the add_files_to_collection requests sent so far
    getFileCalls,   \* the get_file requests the duplicate handler sent so far
    watchFiles,     \* watchFiles bucket: the processed-file record of the path
    temps,          \* temporary directories and files that exist on disk
    results,        \* what each finished pipeline run returned
    now,            \* the time, in units of the debounce duration's grain
    entries,        \* DebounceQueue.entries: path -> its timer, 0 when absent
    timers,         \* the timers time.AfterFunc created, in creation order
    stopped,        \* DebounceQueue.Stop has returned
    mainPc,         \* runWatch: where the main goroutine is
    scanFiles,      \* PerformInitialScan: files found and not yet processed
    processingFiles,\* Watcher.processingFiles: paths being processed
    tasks,          \* the goroutines processFile started, in creation order
    uploadWorkers,  \* Watcher.uploadWorkers: the WaitGroup counter
    fsClosed,       \* FileWatcher.closed
    shutdownHow,    \* Shutdown: which case of its select was taken
    shutdownSave,   \* Shutdown: outcome of its SaveWatchState
    dispatchLog,    \* the calls of processFile by the debounce queue
    fsDirs,         \* directories that exist under the watched root
    fsFiles,        \* files that exist under the watched root
    fsWrites,       \* how many times a file has been written again
    watched,        \* FileWatcher.watched: directories fsnotify watches
    watchErrors,    \* directories whose watcher.Add failed
    events,         \* fsnotify's Events channel
    forwarded,      \* paths handleEvent gave to onFile
    dispatched,     \* paths the debounce queue gave to processFile
    storeLog,       \* the calls made on the fileHashes bucket, with their answers
    album,          \* GetOrCreateAlbum: its arguments, locals and position
    remoteCollections,     \* the collections the control plane holds
    createCollectionCalls, \* the create_collection requests sent so far
    albumCache,     \* Watcher.albumCache: album name -> AlbumInfo
    albumTasks,     \* the watcher's tasks inside Watcher.getOrCreateAlbum
    route,          \* processFileFolderAlbumsMode: the file and its album name
    batch,          \* UploadFiles: the main goroutine, its locals and position
    fileChan,       \* UploadFiles: the channel of queued paths
    resultChan,     \* UploadFiles: the channel of results
    workerPool,     \* the uploadWorker goroutines: position and file in hand
    wg,             \* UploadFiles: the WaitGroup counter
    ctxCancelled,   \* the context of the Uploader has been cancelled
    fileLog,        \* what has been done for each queued path, and by whom
    progressTrack   \* the ProgressTracker of the running UploadFiles

encVars == <<plaintext, readerKind, enc, pushLog, outFile>>
upVars == <<run, hashStore, objects, catalog, createCalls, addCalls,
            getFileCalls, watchFiles, temps, results>>
albumVars == <<album, remoteCollections, createCollectionCalls, albumCache,
               albumTasks>>
batchVars == <<batch, fileChan, resultChan, workerPool, wg, ctxCancelled,
              fileLog, progressTrack>>
\* the state of the album lookup, the folder routing and UploadFiles, which
\* neither a pipeline run on one file nor the watcher's queues touch
orchVars == <<storeLog, albumVars, route, batchVars>>
pipelineVars == <<plaintext, readerKind, enc, pushLog, outFile, dec, upVars,
                  orchVars>>
debounceVars == <<now, entries, timers, stopped>>
watcherVars == <<mainPc, scanFiles, processingFiles, tasks, uploadWorkers,
                 fsClosed, shutdownHow, shutdownSave, dispatchLog>>
fsVars == <<fsDirs, fsFiles, fsWrites, watched, watchErrors, events, forwarded,
            dispatched>>
watchVars == <<debounceVars, watcherVars, fsVars, orchVars>>
vars == <<pipelineVars, watchVars>>

\* the paths events arrive for
DebouncePaths == {"a", "b"}

\* NewDebounceQueue: no entry, no timer
NoEntries == [p \in DebouncePaths |-> 0]

DebounceIdle ==
    /\ now = 0
    /\ entries = NoEntries
    /\ timers = <<>>
    /\ stopped = FALSE

\* NewWatcher: nothing scanned, nothing being processed
WatcherIdle ==
    /\ processingFiles = {}
    /\ tasks = <<>>
    /\ uploadWorkers = 0
    /\ fsClosed = FALSE
    /\ shutdownHow = "none"
    /\ shutdownSave = "none"
    /\ dispatchLog = <<>>

\* the watched root
Root == "root"

\* Watcher.Start on a root without subdirectories: AddRecursive(root)
FileWatcherIdle ==
    /\ fsDirs = {Root}
    /\ fsFiles = {}
    /\ fsWrites = 0
    /\ watched = {Root}
    /\ watchErrors = {}
    /\ events = <<>>
    /\ forwarded = {}
    /\ dispatched = {}

\* the watcher before runWatch has called it
WatchIdle ==
    /\ DebounceIdle
    /\ WatcherIdle
    /\ FileWatcherIdle
    /\ mainPc = "new"
    /\ scanFiles = <<>>

\* no album lookup in progress, no collection on the control plane
AlbumIdle ==
    /\ album = [pc |-> "idle"]
    /\ remoteCollections = <<>>
    /\ createCollectionCalls = <<>>
    /\ albumCache = <<>>
    /\ albumTasks = <<>>

\* UploadFiles has not been called
BatchIdle ==
    /\ batch = [pc |-> "idle"]
    /\ fileChan = [buf |-> <<>>, closed |-> FALSE]
    /\ resultChan = [buf |-> <<>>, closed |-> FALSE]
    /\ workerPool = <<>>
    /\ wg = 0
    /\ ctxCancelled = FALSE
    /\ fileLog = <<>>
    /\ progressTrack = [totalBytes |-> 0, uploadedBytes |-> 0]

OrchIdle ==
    /\ storeLog = <<>>
    /\ AlbumIdle
    /\ route = [pc |-> "idle"]
    /\ BatchIdle

(***************************************************************************)
(* reader.Read(buf) on the bufio.Reader over the input file.  The buffer   *)
(* of EncryptFile is larger than the bufio buffer, so each call is one     *)
(* read of the file: "file" returns min(len(buf), remaining) bytes and     *)
(* reports EOF alone on the next call; "eofWithData" reports EOF together  *)
(* with the last bytes; "shortReads" is any reader io.Reader allows, each  *)
(* read returning between 1 and min(len(buf), remaining) bytes.            *)
(***************************************************************************)
ReadOutcomes(kind, remaining) ==
    IF remaining = 0 THEN {[n |-> 0, eof |-> TRUE]}
    ELSE LET full == Min(encryptionBufferSize, remaining)
         IN  IF kind = "eofWithData"
             THEN {[n |-> full, eof |-> (full = remaining)]}
             ELSE IF kind = "shortReads"
             THEN {r \in [n : 1..full, eof : BOOLEAN] : r.eof => r.n = remaining}
             ELSE {[n |-> full, eof |-> FALSE]}

EncIdle == [pc |-> "idle", key |-> 0, hdr |-> 0, st |-> NewEncryptor(0, 0),
            readPos |-> 0, wbuf |-> <<>>, totalWritten |-> 0,
            needsFinalChunk |-> FALSE, chunkCount |-> 0]

DecIdle == [pc |-> "idle", st |-> NewDecryptor(0, 0), pos |-> 0,
            chunks |-> <<>>, tag |-> TagMessage, err |-> FALSE]

\* EncryptFile is entered with the key and the paths; hdr is the random
\* header crypto.NewEncryptor is going to draw
EncryptFileCall(key, hdr) == [EncIdle EXCEPT !.pc = "start", !.key = key, !.hdr = hdr]

\* the header bytes EncryptFile puts into the output file: none
HeaderWritten_prepended(hdr) == HeaderBytes(hdr)
HeaderWritten(hdr) == <<>>

\* isLastChunk := (err == io.EOF) || (n < encryptionBufferSize)
IsLastChunk(n, eof) == eof \/ n < encryptionBufferSize

ChunkTag(isLastChunk) == IF isLastChunk THEN TagFinal ELSE TagMessage

\* whether the empty FINAL chunk is appended after the loop
AppendsEmptyFinal_never(needsFinalChunk) == FALSE
AppendsEmptyFinal(needsFinalChunk) == needsFinalChunk

\* what writer.Flush leaves in the output file
Flushed(file, wbuf) == file \o wbuf

\* os.Open, os.Create, bufio, crypto.NewEncryptor; any of them may fail
EncryptFileOpen ==
    /\ enc.pc = "start"
    /\ \E ok \in BOOLEAN :
          IF ok
          THEN enc' = [enc EXCEPT !.pc = "loop",
                                  !.st = NewEncryptor(enc.key, enc.hdr),
                                  !.wbuf = HeaderWritten(enc.hdr),
                                  !.totalWritten = Len(HeaderWritten(enc.hdr)),
                                  !.readPos = 0, !.chunkCount = 0,
                                  !.needsFinalChunk = FALSE]
          ELSE enc' = [enc EXCEPT !.pc = "error"]
    /\ outFile' = <<>>
    /\ pushLog' = <<>>
    /\ UNCHANGED <<plaintext, readerKind, dec, upVars, watchVars>>

\* one iteration of the read loop
EncryptFileRead ==
    /\ enc.pc = "loop"
    /\ \E r \in ReadOutcomes(readerKind, Len(plaintext) - enc.readPos) :
          IF r.n = 0
          THEN /\ enc' = [enc EXCEPT !.pc = "tail"]
               /\ UNCHANGED pushLog
          ELSE LET isLastChunk == IsLastChunk(r.n, r.eof)
                   tag == ChunkTag(isLastChunk)
                   data == SubSeq(plaintext, enc.readPos + 1, enc.readPos + r.n)
                   p == Push(enc.st, data, tag)
               IN  /\ enc' = [enc EXCEPT !.readPos = enc.readPos + r.n,
                                          !.chunkCount = enc.chunkCount + 1,
                                          !.needsFinalChunk = ~isLastChunk,
                                          !.st = p.st,
                                          !.wbuf = enc.wbuf \o p.out,
                                          !.totalWritten = enc.totalWritten + Len(p.out)]
                   /\ pushLog' = Append(pushLog,
                                    [off |-> enc.readPos, n |-> r.n, tag |-> tag])
    /\ UNCHANGED <<plaintext, readerKind, outFile, dec, upVars, watchVars>>

\* reader.Read fails with an error other than io.EOF
EncryptFileReadError ==
    /\ enc.pc = "loop"
    /\ enc' = [enc EXCEPT !.pc = "error"]
    /\ UNCHANGED <<plaintext, readerKind, pushLog, outFile, dec, upVars, watchVars>>

\* after the loop: the empty FINAL chunk if needed, Flush, return
EncryptFileFinish ==
    /\ enc.pc = "tail"
    /\ IF AppendsEmptyFinal(enc.needsFinalChunk)
       THEN LET p == Push(enc.st, <<>>, TagFinal)
            IN  /\ enc' = [enc EXCEPT !.pc = "done",
                                       !.chunkCount = enc.chunkCount + 1,
                                       !.st = p.st,
                                       !.wbuf = <<>>,
                                       !.totalWritten = enc.totalWritten + Len(p.out)]
                /\ outFile' = Flushed(outFile, enc.wbuf \o p.out)
                /\ pushLog' = Append(pushLog,
                                 [off |-> enc.readPos, n |-> 0, tag |-> TagFinal])
       ELSE /\ enc' = [enc EXCEPT !.pc = "done", !.wbuf = <<>>]
            /\ outFile' = Flushed(outFile, enc.wbuf)
            /\ UNCHANGED pushLog
    /\ UNCHANGED <<plaintext, readerKind, dec, upVars, watchVars>>

(***************************************************************************)
(* decryptFile of the round-trip test: reads the blob in pieces of         *)
(* encryptionBufferSize + ABYTES and pulls each piece.                     *)
(***************************************************************************)
DecryptOpen ==
    /\ enc.pc = "done"
    /\ dec.pc = "idle"
    /\ dec' = [DecIdle EXCEPT !.pc = "loop", !.st = NewDecryptor(enc.key, enc.hdr)]
    /\ UNCHANGED <<encVars, upVars, watchVars>>

DecryptRead ==
    /\ dec.pc = "loop"
    /\ LET n == Min(encryptionBufferSize + XChaCha20Poly1305IetfABYTES,
                    Len(outFile) - dec.pos)
           r == Pull(dec.st, SubSeq(outFile, dec.pos + 1, dec.pos + n))
       IN  IF n = 0
           THEN dec' = [dec EXCEPT !.pc = "done"]
           ELSE IF ~r.ok
           THEN dec' = [dec EXCEPT !.pc = "done", !.err = TRUE, !.pos = dec.pos + n]
           ELSE dec' = [dec EXCEPT !.pc = IF r.tag = TagFinal THEN "done" ELSE "loop",
                                   !.st = r.st,
                                   !.pos = dec.pos + n,
                                   !.chunks = Append(dec.chunks, r.msg),
                                   !.tag = r.tag]
    /\ UNCHANGED <<encVars, upVars, watchVars>>

(***************************************************************************)
(* The per-file upload pipeline: Uploader.uploadFile of the upload command *)
(* (kind "upload") and Watcher.uploadOrAddToAlbum with UploadSingleFile    *)
(* (kind "watch").  Runs follow one another on the same input file; every  *)
(* call that leaves the process (disk, external tools, control plane,      *)
(* object store, local store) either succeeds or fails.                    *)
(***************************************************************************)
Collections == {1, 2}

EmptyMap == [x \in {} |-> 0]

MapPut(f, k, v) == [x \in (DOMAIN f) \cup {k} |-> IF x = k THEN v ELSE f[x]]

Zeros(n) == [i \in 1..n |-> 0]

\* input files of the pipeline: empty, below the multipart threshold, two
\* parts, three parts
UploadContents == {Zeros(n) : n \in {0, 1, encryptionBufferSize, MaxLen}}

\* ComputeFileHash: hex SHA-256 of the content
ComputeFileHash(content) == <<"sha256", content>>

\* GenerateThumbnail: the JPEG bytes the external tool returned
thumbnailData == <<1>>

\* the random values of a run: GenerateFileKey, the secretbox nonce and the
\* stream headers are fresh draws, no two of them equal
FreshKey(n) == n
FreshNonce(n) == n
FreshHeader(n, what) == IF what = "file" THEN 2 * n - 1 ELSE 2 * n

\* EncryptData: one chunk tagged FINAL under a fresh header
EncryptData(data, key, hdr) == Push(NewEncryptor(key, hdr), data, TagFinal).out

\* EncryptFileKeyWithCollectionKey: secretbox of the file key
EncryptFileKeyWithCollectionKey(fileKey, collectionKey, nonce) ==
    [box |-> collectionKey, nonce |-> nonce, sealed |-> fileKey]

\* the key of a collection, as handed to the pipeline by its caller
CollectionKeyOf(collectionID) == <<"collectionKey", collectionID>>

\* crypto.SecretBoxOpen: the sealed file key opens under the key that sealed
\* it and under no other
SecretBoxOpen(sealedKey, collectionKey) ==
    IF sealedKey.box = collectionKey
    THEN [ok |-> TRUE, fileKey |-> sealedKey.sealed]
    ELSE [ok |-> FALSE, fileKey |-> 0]

(***************************************************************************)
(* The fileHashes bucket of the local store.                               *)
(***************************************************************************)
\* json.Marshal(model.FileHashMapping{FileID, CollectionID})
EncodeMapping_decimal(fileID, collectionID) ==
    [fmt |-> "decimal", fileID |-> fileID, collectionID |-> collectionID]
EncodeMapping(fileID, collectionID) ==
    [fmt |-> "json", fileID |-> fileID, collectionID |-> collectionID]

NoMapping == [found |-> FALSE, fileID |-> 0, collectionID |-> 0]

\* GetFileHashMapping: nil when absent; a legacy value has collection 0
GetFileHashMapping(store, hash) ==
    IF hash \notin DOMAIN store THEN NoMapping
    ELSE IF store[hash].fmt = "json"
    THEN [found |-> TRUE, fileID |-> store[hash].fileID,
          collectionID |-> store[hash].collectionID]
    ELSE [found |-> TRUE, fileID |-> store[hash].fileID, collectionID |-> 0]

GetFileIDByHash(store, hash) ==
    IF GetFileHashMapping(store, hash).found
    THEN GetFileHashMapping(store, hash).fileID
    ELSE 0

SaveFileHashMapping(store, hash, fileID, collectionID) ==
    MapPut(store, hash, EncodeMapping(fileID, collectionID))

SaveFileHash(store, hash, fileID) == SaveFileHashMapping(store, hash, fileID, 0)

\* the watchFiles bucket holds one record per path: none yet, or the
\* model.ProcessedFile that SaveProcessedFile wrote last
NoProcessedFile == [status |-> "none", fileHash |-> <<>>, fileID |-> 0,
                    collectionID |-> 0]

ProcessedFile(fileHash, fileID, collectionID, status) ==
    [status |-> status, fileHash |-> fileHash, fileID |-> fileID,
     collectionID |-> collectionID]

\* StoreHashMapping(ctx, storage, hash, fileID)
StoreHashMapping_nothing(store, hash, fileID) == store
StoreHashMapping(store, hash, fileID) == SaveFileHash(store, hash, fileID)

\* CheckLocalDuplicate: found unless the stored file id is 0
CheckLocalDuplicate_neverFound(store, hash) == [fileID |-> 0, found |-> FALSE]
CheckLocalDuplicate(store, hash) ==
    [fileID |-> GetFileIDByHash(store, hash),
     found  |-> GetFileIDByHash(store, hash) # 0]

(***************************************************************************)
(* Multipart upload of the encrypted file.                                 *)
(***************************************************************************)
\* ComputePartMD5s: partCount := (fileSize + partSize - 1) / partSize
PartCount(fileSize) == (fileSize + multipartPartSize - 1) \div multipartPartSize

\* the bytes one file.Read(buf) of UploadMultipart returns for part i
PartOf(file, i) ==
    SubSeq(file, (i - 1) * multipartPartSize + 1,
           Min(i * multipartPartSize, Len(file)))

\* base64 MD5 of a part
MD5(data) == <<"md5", data>>

\* ComputePartMD5s: one file.Read(buf) and one MD5 per part
ComputePartMD5s(file) == [i \in 1..PartCount(Len(file)) |-> MD5(PartOf(file, i))]

\* how many part URLs the control plane may answer with
PartURLCounts(partCount) == {n \in (partCount - 1)..(partCount + 1) : n >= 0}

\* the object store completes an upload whose part list is non-empty and
\* names an ETag it issued for every part
S3CompleteAccepts(etags) ==
    /\ Len(etags) > 0
    /\ \A i \in 1..Len(etags) : etags[i] # 0

\* uploadFileToS3: fileSize >= MultipartMin
UsesMultipart_above(fileSize) == fileSize > DefaultMultipartMin
UsesMultipart(fileSize) == fileSize >= DefaultMultipartMin

\* uploadToS3: a failed thumbnail upload fails the upload step
AfterThumbnailUpload_ignored(ok) == "finalize"
AfterThumbnailUpload(ok) == IF ok THEN "finalize" ELSE "failed"

RunIdle == [pc |-> "idle", kind |-> "none", force |-> FALSE, target |-> 0,
            hash |-> <<>>, deferred |-> {}, fileKey |-> 0,
            encryptedFileKey |-> <<>>, encryptedFileSize |-> 0,
            encryptedThumbnail |-> <<>>, fileObjectKey |-> <<>>,
            thumbnailObjectKey |-> <<>>, urlsObjectKey |-> <<>>,
            partMD5s |-> <<>>, etags |-> <<>>, part |-> 0, staged |-> <<>>,
            fileID |-> 0, created |-> FALSE, stored |-> FALSE]

RunNumber == Len(results) + 1

\* uploadOrAddToAlbum, isDuplicate: the line printed for the collection id
\* that CheckAndHandleDuplicate returned
DuplicateMarker(collectionID, targetCollectionID) ==
    IF collectionID = targetCollectionID THEN "skipped" ELSE "addedToAlbum"

\* the collection id CheckAndHandleDuplicate returns with isDuplicate: the
\* target, both when the file was in the target album already and when it
\* has just been added to it
ReturnedCollectionID(outcome, targetCollectionID) == targetCollectionID

\* the line the watcher prints for the file (uploadOrAddToAlbum, and
\* processFile for an error); the upload command prints no such line
Marker(kind, outcome, targetCollectionID) ==
    IF kind # "watch" THEN "none"
    ELSE IF outcome = "failed" THEN "failed"
    ELSE IF outcome = "success" THEN "uploaded"
    ELSE DuplicateMarker(ReturnedCollectionID(outcome, targetCollectionID),
                         targetCollectionID)

\* what a run returns to its caller
Result(outcome, fileID, err, created, stored) ==
    [kind |-> run.kind, force |-> run.force, target |-> run.target,
     outcome |-> outcome, fileID |-> fileID, err |-> err,
     created |-> created, stored |-> stored,
     marker |-> Marker(run.kind, outcome, run.target)]

\* the run returns after it has removed the temporary resources named
Exit(res, removed) ==
    /\ results' = Append(results, res)
    /\ run' = RunIdle
    /\ enc' = EncIdle
    /\ pushLog' = <<>>
    /\ outFile' = <<>>
    /\ temps' = temps \ removed

\* the run returns: its locals are gone, the deferred os.RemoveAll and
\* os.Remove calls registered so far have run
Return(res) == Exit(res, run.deferred)

\* encryptFileData, every error after MkdirTemp: os.RemoveAll(tempDir)
RemovedOnEncryptError_nothing == {}
RemovedOnEncryptError == {"uploadDir"}

Failed(err) == Return(Result("failed", 0, err, run.created, run.stored))

Continue(r) ==
    /\ run' = r
    /\ UNCHANGED <<enc, pushLog, outFile, results, temps>>

\* the function that registered the deferred removal of a temporary
\* resource returns to the pipeline, which goes on
ContinueRemoving(r, removed) ==
    /\ run' = [r EXCEPT !.deferred = @ \ removed]
    /\ temps' = temps \ removed
    /\ UNCHANGED <<enc, pushLog, outFile, results>>

\* a temporary resource was created and its removal deferred
ContinueCreating(r, created) ==
    /\ run' = [r EXCEPT !.deferred = @ \cup created]
    /\ temps' = temps \cup created
    /\ UNCHANGED <<enc, pushLog, outFile, results>>

fileVars == <<plaintext, readerKind, dec>>
storeVars == <<hashStore, objects, catalog, createCalls, addCalls,
               getFileCalls, watchFiles>>

\* a worker takes the file from the queue (uploadWorker), or the watcher
\* hands it to uploadOrAddToAlbum with the album of its folder
StartRun ==
    /\ run.pc = "idle"
    /\ Len(results) < MaxRuns
    /\ \E kind \in {"upload", "watch"}, force \in BOOLEAN, target \in Collections :
          /\ kind = "watch" => ~force
          /\ Continue([RunIdle EXCEPT !.pc = IF kind = "watch" THEN "w_hash"
                                                              ELSE "validate",
                                      !.kind = kind, !.force = force,
                                      !.target = target])
    /\ UNCHANGED <<watchVars, fileVars, storeVars>>

\* uploadOrAddToAlbum: ComputeFileHash
WatchHash ==
    /\ run.pc = "w_hash"
    /\ \E ok \in BOOLEAN :
          IF ok
          THEN Continue([run EXCEPT !.pc = "w_dup",
                                    !.hash = ComputeFileHash(plaintext)])
          ELSE Failed("failed to compute hash")
    /\ UNCHANGED <<watchVars, fileVars, storeVars>>

\* the catalog after the control plane accepted
\* AddFilesToCollection(target, [fileItem])
AddFilesToCollection(cat, fileItem, target) ==
    IF fileItem.id \in 1..Len(cat)
    THEN [cat EXCEPT ![fileItem.id].collections = @ \cup {target},
                     ![fileItem.id].sealedKeys =
                         MapPut(@, target, fileItem.encryptedKey)]
    ELSE cat

\* client.GetFile(collectionID, fileID): the entry of the file as the
\* collection holds it, with the file key sealed for that collection
GetFile(cat, collectionID, fileID) ==
    IF fileID \in 1..Len(cat) /\ collectionID \in DOMAIN cat[fileID].sealedKeys
    THEN [ok |-> TRUE, encryptedKey |-> cat[fileID].sealedKeys[collectionID]]
    ELSE [ok |-> FALSE, encryptedKey |-> <<>>]

\* getCollectionKey: the collection is looked up in GetAllCollections
getCollectionKey(collectionID) ==
    IF collectionID \in Collections
    THEN [ok |-> TRUE, key |-> CollectionKeyOf(collectionID)]
    ELSE [ok |-> FALSE, key |-> <<>>]

\* decryptFileKey: SecretBoxOpen of the sealed key of the catalog entry
decryptFileKey_regenerated(encryptedKey, collectionKey) ==
    [ok |-> TRUE, fileKey |-> FreshKey(RunNumber)]
decryptFileKey(encryptedKey, collectionKey) ==
    SecretBoxOpen(encryptedKey, collectionKey)

\* encryptFileKey: secretbox.Seal under a random nonce
encryptFileKey(fileKey, collectionKey, nonce) ==
    [box |-> collectionKey, nonce |-> nonce, sealed |-> fileKey]

\* addFileToAlbum up to the request: the item it sends, or the error that
\* ends it before anything is sent
addFileToAlbumItem(fileID, originalCollectionID, targetCollectionKey) ==
    LET file == GetFile(catalog, originalCollectionID, fileID)
        originalCollectionKey == getCollectionKey(originalCollectionID)
        opened == decryptFileKey(file.encryptedKey, originalCollectionKey.key)
    IN  IF file.ok /\ originalCollectionKey.ok /\ opened.ok
        THEN [ok |-> TRUE,
              item |-> [id |-> fileID,
                        encryptedKey |->
                            encryptFileKey(opened.fileKey, targetCollectionKey,
                                           FreshNonce(RunNumber))]]
        ELSE [ok |-> FALSE, item |-> <<>>]

\* DuplicateHandler.CheckAndHandleDuplicate with addFileToAlbum, and the
\* branch of uploadOrAddToAlbum on its answer
WatchCheckAndHandleDuplicate ==
    /\ run.pc = "w_dup"
    /\ \E ok \in BOOLEAN, res \in {"ok", "apiError", "error"},
          saved \in BOOLEAN :
          LET mapping == GetFileHashMapping(hashStore, run.hash)
              adds == ok /\ mapping.found /\ mapping.collectionID # run.target
              prepared == addFileToAlbumItem(mapping.fileID, mapping.collectionID,
                                             CollectionKeyOf(run.target))
              sends == adds /\ prepared.ok /\ res # "error"
              added == sends /\ res = "ok"
              inTarget == ok /\ mapping.found
                             /\ mapping.collectionID = run.target
          IN  /\ watchFiles' = IF saved /\ (inTarget \/ added)
                               THEN ProcessedFile(run.hash, mapping.fileID,
                                                  run.target, "duplicate")
                               ELSE watchFiles
              /\ addCalls' = IF sends
                             THEN Append(addCalls,
                                         [collectionID |-> run.target,
                                          item |-> prepared.item])
                             ELSE addCalls
              /\ catalog' = IF added
                            THEN AddFilesToCollection(catalog, prepared.item,
                                                      run.target)
                            ELSE catalog
              /\ getFileCalls' = IF adds
                                 THEN Append(getFileCalls,
                                             [collectionID |->
                                                  mapping.collectionID,
                                              fileID |-> mapping.fileID])
                                 ELSE getFileCalls
              /\ IF ~ok THEN Failed("duplicate check failed")
                 ELSE IF ~mapping.found THEN Continue([run EXCEPT !.pc = "validate"])
                 ELSE IF mapping.collectionID = run.target
                 THEN Return(Result("inAlbum", mapping.fileID, "", FALSE, FALSE))
                 ELSE IF added
                 THEN Return(Result("added", mapping.fileID, "", FALSE, FALSE))
                 ELSE Failed("failed to add file to album")
    /\ UNCHANGED <<watchVars, fileVars, hashStore, objects, createCalls>>

\* Step 1: ValidateImageFile
UploadValidate ==
    /\ run.pc = "validate"
    /\ \E ok \in BOOLEAN :
          IF ok THEN Continue([run EXCEPT !.pc = "hash"])
          ELSE Failed("validation failed")
    /\ UNCHANGED <<watchVars, fileVars, storeVars>>

\* Step 2: ComputeFileHash
UploadHash ==
    /\ run.pc = "hash"
    /\ \E ok \in BOOLEAN :
          IF ok
          THEN Continue([run EXCEPT !.pc = "dedup",
                                    !.hash = ComputeFileHash(plaintext)])
          ELSE Failed("failed to compute hash")
    /\ UNCHANGED <<watchVars, fileVars, storeVars>>

\* Step 3: CheckLocalDuplicate, skipped by Uploader.uploadFile under
\* ForceUpload; UploadSingleFile returns an error for a duplicate
UploadCheckDedup ==
    /\ run.pc = "dedup"
    /\ IF run.kind = "upload" /\ run.force
       THEN Continue([run EXCEPT !.pc = "metadata"])
       ELSE \E ok \in BOOLEAN :
               LET d == CheckLocalDuplicate(hashStore, run.hash)
               IN  IF ~ok THEN Failed("failed to check duplicate")
                   ELSE IF ~d.found THEN Continue([run EXCEPT !.pc = "metadata"])
                   ELSE IF run.kind = "upload"
                   THEN Return(Result("skipped", d.fileID, "", FALSE, FALSE))
                   ELSE Failed("duplicate file found")
    /\ UNCHANGED <<watchVars, fileVars, storeVars>>

\* Step 4: ExtractMetadata
UploadExtractMetadata ==
    /\ run.pc = "metadata"
    /\ \E ok \in BOOLEAN :
          IF ok THEN Continue([run EXCEPT !.pc = "thumbnail"])
          ELSE Failed("failed to extract metadata")
    /\ UNCHANGED <<watchVars, fileVars, storeVars>>

\* Step 5, GenerateThumbnail: MkdirTemp and the deferred RemoveAll
GenerateThumbnailTempDir ==
    /\ run.pc = "thumbnail"
    /\ \E ok \in BOOLEAN :
          IF ok
          THEN ContinueCreating([run EXCEPT !.pc = "ffmpeg"], {"thumbnailDir"})
          ELSE Failed("failed to generate thumbnail")
    /\ UNCHANGED <<watchVars, fileVars, storeVars>>

\* Step 5, GenerateThumbnail: callFFmpeg, ReadFile, return
UploadGenerateThumbnail ==
    /\ run.pc = "ffmpeg"
    /\ \E ok \in BOOLEAN :
          IF ok
          THEN ContinueRemoving([run EXCEPT !.pc = "encrypt"], {"thumbnailDir"})
          ELSE Failed("failed to generate thumbnail")
    /\ UNCHANGED <<watchVars, fileVars, storeVars>>

\* Step 6, encryptFileData up to the call of EncryptFile: file key, sealed
\* file key, temp directory
encryptFileDataStart ==
    /\ run.pc = "encrypt"
    /\ \E ok \in BOOLEAN :
          IF ok
          THEN /\ run' = [run EXCEPT
                            !.pc = "encrypting", !.fileKey = FreshKey(RunNumber),
                            !.encryptedFileKey =
                                EncryptFileKeyWithCollectionKey(
                                    FreshKey(RunNumber),
                                    CollectionKeyOf(run.target),
                                    FreshNonce(RunNumber))]
               /\ temps' = temps \cup {"uploadDir"}
               /\ enc' = EncryptFileCall(FreshKey(RunNumber),
                                         FreshHeader(RunNumber, "file"))
               /\ UNCHANGED <<pushLog, outFile, results>>
          ELSE Failed("failed to encrypt data")
    /\ UNCHANGED <<watchVars, fileVars, storeVars>>

\* Step 6, encryptFileData after EncryptFile returned: thumbnail and metadata
encryptFileDataRest ==
    /\ run.pc = "encrypting"
    /\ enc.pc \in {"done", "error"}
    /\ \E ok \in BOOLEAN :
          IF enc.pc = "done" /\ ok
          THEN Continue([run EXCEPT
                           !.pc = "s3file",
                           !.deferred = @ \cup {"uploadDir"},
                           !.encryptedFileSize = enc.totalWritten,
                           !.encryptedThumbnail =
                               EncryptData(thumbnailData, run.fileKey,
                                           FreshHeader(RunNumber, "thumb"))])
          ELSE Exit(Result("failed", 0, "failed to encrypt data",
                           run.created, run.stored),
                    run.deferred \cup RemovedOnEncryptError)
    /\ UNCHANGED <<watchVars, fileVars, storeVars>>

\* Step 7, uploadFileSingle: MD5, GetUploadURL, one PUT of the whole file
uploadFileSingle ==
    /\ run.pc = "s3file"
    /\ ~UsesMultipart(run.encryptedFileSize)
    /\ \E ok \in BOOLEAN :
          IF ok
          THEN /\ objects' = MapPut(objects, <<RunNumber, "file">>, outFile)
               /\ Continue([run EXCEPT !.pc = "s3thumb",
                                       !.fileObjectKey = <<RunNumber, "file">>])
          ELSE /\ Failed("failed to upload to S3")
               /\ UNCHANGED objects
    /\ UNCHANGED <<watchVars, fileVars, hashStore, catalog, createCalls, addCalls,
                   getFileCalls, watchFiles>>

\* Step 7, uploadFileMultipart: ComputePartMD5s and GetMultipartUploadURLs
uploadFileMultipart ==
    /\ run.pc = "s3file"
    /\ UsesMultipart(run.encryptedFileSize)
    /\ \E ok \in BOOLEAN, n \in PartURLCounts(PartCount(Len(outFile))) :
          IF ok
          THEN Continue([run EXCEPT
                           !.pc = IF n = 0 THEN "mp_complete" ELSE "mp_part",
                           !.urlsObjectKey = <<RunNumber, "file">>,
                           !.partMD5s = ComputePartMD5s(outFile),
                           !.etags = [i \in 1..n |-> 0],
                           !.part = 0, !.staged = <<>>])
          ELSE Failed("failed to upload to S3")
    /\ UNCHANGED <<watchVars, fileVars, storeVars>>

\* UploadMultipart: one iteration of the loop over urls.PartURLs; the object
\* store answers 200 only to a body that has the Content-MD5 of the request
UploadMultipartPart ==
    /\ run.pc = "mp_part"
    /\ LET i == run.part + 1
           data == PartOf(outFile, i)
       IN  IF data = <<>>
           THEN Continue([run EXCEPT !.pc = "mp_complete"])
           ELSE \E res \in {"ok", "error", "noETag"} :
                   IF res = "ok" /\ run.partMD5s[i] = MD5(data)
                   THEN Continue([run EXCEPT
                                    !.pc = IF i = Len(run.etags) THEN "mp_complete"
                                                                 ELSE "mp_part",
                                    !.part = i,
                                    !.etags = [run.etags EXCEPT ![i] = i],
                                    !.staged = Append(run.staged, data)])
                   ELSE Failed("failed to upload to S3")
    /\ UNCHANGED <<watchVars, fileVars, storeVars>>

\* UploadMultipart: the completion request listing every entry of etags
UploadMultipartComplete ==
    /\ run.pc = "mp_complete"
    /\ \E ok \in BOOLEAN :
          IF ok /\ S3CompleteAccepts(run.etags)
          THEN /\ objects' = MapPut(objects, run.urlsObjectKey, Concat(run.staged))
               /\ Continue([run EXCEPT !.pc = "s3thumb",
                                       !.fileObjectKey = run.urlsObjectKey])
          ELSE /\ Failed("failed to upload to S3")
               /\ UNCHANGED objects
    /\ UNCHANGED <<watchVars, fileVars, hashStore, catalog, createCalls, addCalls,
                   getFileCalls, watchFiles>>

\* Step 7, uploadThumbnailToS3: CreateTemp and the deferred Remove
uploadThumbnailToS3TempFile ==
    /\ run.pc = "s3thumb"
    /\ \E ok \in BOOLEAN :
          IF ok
          THEN /\ ContinueCreating([run EXCEPT !.pc = "s3thumb_put"],
                                   {"thumbnailFile"})
               /\ UNCHANGED objects
          ELSE IF AfterThumbnailUpload(FALSE) = "failed"
          THEN /\ Failed("failed to upload to S3")
               /\ UNCHANGED objects
          ELSE /\ Continue([run EXCEPT !.pc = "finalize"])
               /\ UNCHANGED objects
    /\ UNCHANGED <<watchVars, fileVars, hashStore, catalog, createCalls, addCalls,
                   getFileCalls, watchFiles>>

\* Step 7, uploadThumbnailToS3 from the write of the temp file to its
\* return, and the return of uploadToS3
uploadThumbnailToS3 ==
    /\ run.pc = "s3thumb_put"
    /\ \E ok \in BOOLEAN :
          /\ objects' = IF ok
                        THEN MapPut(objects, <<RunNumber, "thumb">>,
                                    run.encryptedThumbnail)
                        ELSE objects
          /\ IF AfterThumbnailUpload(ok) = "failed"
             THEN Failed("failed to upload to S3")
             ELSE ContinueRemoving(
                      [run EXCEPT
                         !.pc = "finalize",
                         !.thumbnailObjectKey =
                             IF ok THEN <<RunNumber, "thumb">> ELSE <<>>],
                      {"thumbnailFile"})
    /\ UNCHANGED <<watchVars, fileVars, hashStore, catalog, createCalls, addCalls,
                   getFileCalls, watchFiles>>

\* the catalog entry create_file commits for the request of finalizeUpload
FileCreateRequest ==
    [collectionID |-> run.target,
     collections |-> {run.target},
     encryptedKey |-> run.encryptedFileKey,
     sealedKeys |-> MapPut(EmptyMap, run.target, run.encryptedFileKey),
     fileObjectKey |-> run.fileObjectKey,
     fileDecryptionHeader |-> enc.hdr,
     fileSize |-> run.encryptedFileSize,
     thumbnailObjectKey |-> run.thumbnailObjectKey,
     thumbnailSize |-> Len(run.encryptedThumbnail)]

\* Step 8: finalizeUpload, the create_file call
finalizeUpload ==
    /\ run.pc = "finalize"
    /\ createCalls' = createCalls + 1
    /\ \E ok \in BOOLEAN :
          IF ok
          THEN /\ catalog' = Append(catalog, FileCreateRequest)
               /\ Continue([run EXCEPT !.pc = "store", !.created = TRUE,
                                       !.fileID = Len(catalog) + 1])
          ELSE /\ Return(Result("failed", 0, "failed to finalize upload",
                                TRUE, FALSE))
               /\ UNCHANGED catalog
    /\ UNCHANGED <<watchVars, fileVars, hashStore, objects, addCalls,
                   getFileCalls, watchFiles>>

\* Step 9: StoreHashMapping, a failure is only warned about; then
\* Uploader.uploadFile and UploadSingleFile return success
UploadStoreHashMapping ==
    /\ run.pc = "store"
    /\ \E ok \in BOOLEAN :
          /\ hashStore' = IF ok
                          THEN StoreHashMapping(hashStore, run.hash, run.fileID)
                          ELSE hashStore
          /\ IF run.kind = "upload"
             THEN Return(Result("success", run.fileID, "", TRUE, ok))
             ELSE Continue([run EXCEPT !.pc = "w_save", !.stored = ok])
    /\ UNCHANGED <<watchVars, fileVars, objects, catalog, createCalls, addCalls,
                   getFileCalls, watchFiles>>

\* uploadOrAddToAlbum after a successful upload:
\* DuplicateHandler.SaveFileHashMapping(hash, path, fileID, target)
WatchSaveFileHashMapping ==
    /\ run.pc = "w_save"
    /\ \E ok \in BOOLEAN :
          /\ hashStore' = IF ok
                          THEN SaveFileHashMapping(hashStore, run.hash,
                                                   run.fileID, run.target)
                          ELSE hashStore
          /\ \E saved \in BOOLEAN :
                watchFiles' = IF ok /\ saved
                              THEN ProcessedFile(run.hash, run.fileID,
                                                 run.target, "uploaded")
                              ELSE watchFiles
          /\ Return(Result("success", run.fileID, "", TRUE, run.stored \/ ok))
    /\ UNCHANGED <<watchVars, fileVars, objects, catalog, createCalls, addCalls,
                   getFileCalls>>

InitUpload ==
    /\ plaintext \in UploadContents
    /\ readerKind = "file"
    /\ enc = EncIdle
    /\ pushLog = <<>>
    /\ outFile = <<>>
    /\ dec = DecIdle
    /\ run = RunIdle
    /\ hashStore = EmptyMap
    /\ objects = EmptyMap
    /\ catalog = <<>>
    /\ createCalls = 0
    /\ addCalls = <<>>
    /\ getFileCalls = <<>>
    /\ watchFiles = NoProcessedFile
    /\ temps = {}
    /\ results = <<>>
    /\ WatchIdle
    /\ OrchIdle

NextUpload ==
    \/ StartRun
    \/ WatchHash
    \/ WatchCheckAndHandleDuplicate
    \/ UploadValidate
    \/ UploadHash
    \/ UploadCheckDedup
    \/ UploadExtractMetadata
    \/ GenerateThumbnailTempDir
    \/ UploadGenerateThumbnail
    \/ encryptFileDataStart
    \/ EncryptFileOpen
    \/ EncryptFileRead
    \/ EncryptFileReadError
    \/ EncryptFileFinish
    \/ encryptFileDataRest
    \/ uploadFileSingle
    \/ uploadFileMultipart
    \/ UploadMultipartPart
    \/ UploadMultipartComplete
    \/ uploadThumbnailToS3TempFile
    \/ uploadThumbnailToS3
    \/ finalizeUpload
    \/ UploadStoreHashMapping
    \/ WatchSaveFileHashMapping

SpecUpload == InitUpload /\ [][NextUpload]_vars

(***************************************************************************)
(* SpecEnc: EncryptFile on a regular file, followed by the test's          *)
(* decryption.  SpecEncAnyReader: the same with every kind of reader.      *)
(***************************************************************************)
InitEncWith(kinds) ==
    /\ plaintext \in Plaintexts
    /\ readerKind \in kinds
    /\ \E key \in Keys, hdr \in Headers : enc = EncryptFileCall(key, hdr)
    /\ pushLog = <<>>
    /\ outFile = <<>>
    /\ dec = DecIdle
    /\ run = RunIdle
    /\ hashStore = EmptyMap
    /\ objects = EmptyMap
    /\ catalog = <<>>
    /\ createCalls = 0
    /\ addCalls = <<>>
    /\ getFileCalls = <<>>
    /\ watchFiles = NoProcessedFile
    /\ temps = {}
    /\ results = <<>>
    /\ WatchIdle
    /\ OrchIdle

InitEnc == InitEncWith({"file"})

InitEncAnyReader == InitEncWith({"file", "eofWithData", "shortReads"})

NextEnc ==
    \/ EncryptFileOpen
    \/ EncryptFileRead
    \/ EncryptFileReadError
    \/ EncryptFileFinish
    \/ DecryptOpen
    \/ DecryptRead

SpecEnc == InitEnc /\ [][NextEnc]_vars

SpecEncAnyReader == InitEncAnyReader /\ [][NextEnc]_vars

(***************************************************************************)
(* Properties of the stream encryption.                                    *)
(***************************************************************************)
CeilDiv(a, b) == (a + b - 1) \div b

Max(a, b) == IF a > b THEN a ELSE b

RECURSIVE SumChunkBytes(_)
SumChunkBytes(log) ==
    IF log = <<>> THEN 0
    ELSE Head(log).n + XChaCha20Poly1305IetfABYTES + SumChunkBytes(Tail(log))

LastPush == pushLog[Len(pushLog)]

\* C1: for a non-empty plaintext, decrypting the blob of EncryptFile in pieces
\* of buffer size + 17 with a decryptor made from the key and the returned
\* header gives back exactly the plaintext, without error, consuming the whole
\* blob, and the last chunk carries tag FINAL.
C1_RoundTrip ==
    (dec.pc = "done" /\ Len(plaintext) > 0) =>
        /\ ~dec.err
        /\ Concat(dec.chunks) = plaintext
        /\ dec.pos = Len(outFile)
        /\ dec.tag = TagFinal
        /\ LastPush.tag = TagFinal

C1_Witness ==
    /\ dec.pc = "done"
    /\ Len(plaintext) = 2 * encryptionBufferSize + 1
    /\ Len(dec.chunks) = 3
    /\ Concat(dec.chunks) = plaintext

\* C2: when the plaintext size is not a multiple of the buffer size, the chunk
\* that contains the last plaintext byte is pushed with tag FINAL, however the
\* reader delivers the plaintext: full-buffer reads, short reads, EOF together
\* with the last bytes or on the following read.
C2_LastByteChunkFinal ==
    (Len(plaintext) % encryptionBufferSize # 0) =>
        \A k \in 1..Len(pushLog) :
            (pushLog[k].n > 0 /\ pushLog[k].off + pushLog[k].n = Len(plaintext))
                => pushLog[k].tag = TagFinal

\* C3: the number of chunks in the blob, with n = ceil(|P| / buffer): max(n, 1)
\* chunks when |P| is no multiple of the buffer or |P| = 0; n + 1 chunks when
\* |P| is a positive multiple, the last full chunk tagged MESSAGE followed by an
\* empty chunk tagged FINAL; no other chunk is empty.
C3_ChunkCount ==
    enc.pc = "done" =>
        LET L == Len(plaintext)
            n == CeilDiv(L, encryptionBufferSize)
        IN  IF L % encryptionBufferSize # 0 \/ L = 0
            THEN /\ Len(pushLog) = Max(n, 1)
                 /\ \A k \in 1..Len(pushLog) : pushLog[k].n > 0 \/ L = 0
            ELSE /\ Len(pushLog) = n + 1
                 /\ pushLog[n].tag = TagMessage
                 /\ pushLog[n].n = encryptionBufferSize
                 /\ pushLog[n + 1].n = 0
                 /\ pushLog[n + 1].tag = TagFinal
                 /\ \A k \in 1..n : pushLog[k].n > 0

\* C5: the output file holds only the encrypted chunks: no header byte is in
\* it, the size EncryptFile returns is the length of the file on disk, and
\* that size is the sum over the chunks of plaintext length + 17.
C5_BlobOnlyChunks ==
    enc.pc = "done" =>
        /\ \A i \in 1..Len(outFile) : outFile[i][1] # "h"
        /\ enc.totalWritten = Len(outFile)
        /\ enc.totalWritten = SumChunkBytes(pushLog)

C5_Witness ==
    /\ enc.pc = "done"
    /\ Len(plaintext) = encryptionBufferSize
    /\ Len(pushLog) = 2
    /\ enc.totalWritten = encryptionBufferSize + 2 * XChaCha20Poly1305IetfABYTES
    /\ Len(outFile) = enc.totalWritten

(***************************************************************************)
(* Properties of the upload pipeline.                                      *)
(***************************************************************************)
IsTagByte(b) == b[1] = "t"

\* the tags of the chunks of a blob, in the order of the chunks
ChunkTags(blob) ==
    LET t == SelectSeq(blob, IsTagByte)
    IN  [i \in 1..Len(t) |-> t[i][6]]

FileObjects == {k \in DOMAIN objects : k[2] = "file"}

LastResult == results[Len(results)]

\* C4: every file blob the pipeline uploads has at least one chunk and its
\* last chunk is tagged FINAL, for every file the validator accepts, the
\* zero-length file included.
C4_UploadedBlobHasFinalChunk ==
    \A k \in FileObjects :
        LET tags == ChunkTags(objects[k])
        IN  /\ Len(tags) >= 1
            /\ tags[Len(tags)] = TagFinal

\* C6: in both pipelines a create_file request is sent only when the upload
\* of the file's blob and the upload of its thumbnail have both succeeded in
\* this run, and a run whose upload step failed has sent none.
C6_CreateAfterUploads ==
    [][ /\ createCalls' # createCalls =>
              /\ run.fileObjectKey = <<RunNumber, "file">>
              /\ run.thumbnailObjectKey = <<RunNumber, "thumb">>
              /\ run.fileObjectKey \in DOMAIN objects
              /\ run.thumbnailObjectKey \in DOMAIN objects
        /\ (Len(results') > Len(results)
              /\ results'[Len(results')].err = "failed to upload to S3") =>
              /\ createCalls' = createCalls
              /\ ~results'[Len(results')].created
      ]_vars

C6_Witness ==
    /\ run.pc = "store"
    /\ run.kind = "watch"
    /\ createCalls = 1
    /\ Len(catalog) = 1
    /\ Len(results) = 1
    /\ LastResult.err = "failed to upload to S3"
    /\ catalog[1].fileObjectKey \in DOMAIN objects
    /\ catalog[1].thumbnailObjectKey \in DOMAIN objects

\* C7: for every catalog entry the blob stored at the entry's file object key
\* has the byte length the entry gives as the encrypted size, on the single
\* PUT path and on the multipart path, whatever number of part URLs the
\* control plane returned.
C7_BlobLengthIsCommittedSize ==
    \A id \in 1..Len(catalog) :
        /\ catalog[id].fileObjectKey \in DOMAIN objects
        /\ Len(objects[catalog[id].fileObjectKey]) = catalog[id].fileSize

\* two consecutive runs of Uploader.uploadFile without ForceUpload
TwoUploads(k) ==
    /\ results[k].kind = "upload" /\ ~results[k].force
    /\ results[k + 1].kind = "upload" /\ ~results[k + 1].force

\* C8 as stated: of two consecutive runs of the upload pipeline on the file
\* with force = false that both report an outcome other than an error, the
\* first one having uploaded, the second issues no create_file call and
\* reports skipped with the file id of the first.
C8_DedupIdempotent ==
    \A k \in 1..(Len(results) - 1) :
        (TwoUploads(k) /\ results[k].outcome = "success"
                       /\ results[k + 1].outcome # "failed") =>
            /\ ~results[k + 1].created
            /\ results[k + 1].outcome = "skipped"
            /\ results[k + 1].fileID = results[k].fileID

\* C8 amended: when the first run committed and its write of the hash mapping
\* succeeded, the second run issues no create_file call; it reports skipped
\* with the file id of the first run, unless its validation, its hashing or
\* its lookup in the store fails.
C8_DedupIdempotentWhenStored ==
    \A k \in 1..(Len(results) - 1) :
        (TwoUploads(k) /\ results[k].outcome = "success" /\ results[k].stored) =>
            /\ ~results[k + 1].created
            /\ \/ /\ results[k + 1].outcome = "skipped"
                  /\ results[k + 1].fileID = results[k].fileID
               \/ /\ results[k + 1].outcome = "failed"
                  /\ results[k + 1].err \in {"validation failed",
                                              "failed to compute hash",
                                              "failed to check duplicate"}

C8_Witness ==
    /\ Len(results) = 2
    /\ TwoUploads(1)
    /\ results[1].outcome = "success" /\ results[1].stored
    /\ results[2].outcome = "skipped"
    /\ results[2].fileID = results[1].fileID
    /\ createCalls = 1
    /\ Len(catalog) = 1

\* C9: when Uploader.uploadFile has committed a file and written the hash
\* mapping, the store maps the content hash to the file id create_file
\* returned and the collection the file was committed to.
C9_StoreMapsHashToCommit ==
    (run.pc = "idle" /\ results # <<>> /\ LastResult.kind = "upload"
        /\ LastResult.outcome = "success" /\ LastResult.stored) =>
        GetFileHashMapping(hashStore, ComputeFileHash(plaintext)) =
            [found |-> TRUE, fileID |-> LastResult.fileID,
             collectionID |-> LastResult.target]

\* C10: a hash mapping, once written, is never replaced by a different
\* (file id, collection id) value.
C10_MappingNeverChanged ==
    [][\A h \in DOMAIN hashStore :
          /\ h \in DOMAIN hashStore'
          /\ GetFileHashMapping(hashStore', h) = GetFileHashMapping(hashStore, h)
      ]_vars


(***************************************************************************)
(* Properties of the duplicate handler.                                    *)
(***************************************************************************)
\* the file key a sealed key opens to under the key of its collection
OpensTo(sealedKey, collectionID) ==
    SecretBoxOpen(sealedKey, CollectionKeyOf(collectionID))

\* C11: the sealed key of every add_files_to_collection request opens under
\* the key of the request's collection, and it opens to the file key that
\* the sealed keys the catalog holds for the file open to under the keys of
\* their collections: the file key is unwrapped, never generated anew.
C11_ReWrapKeepsFileKey ==
    \A i \in 1..Len(addCalls) :
       LET call == addCalls[i]
           entry == catalog[call.item.id]
           opened == OpensTo(call.item.encryptedKey, call.collectionID)
       IN  /\ call.item.id \in 1..Len(catalog)
           /\ opened.ok
           /\ \A A \in DOMAIN entry.sealedKeys :
                 /\ OpensTo(entry.sealedKeys[A], A).ok
                 /\ OpensTo(entry.sealedKeys[A], A).fileKey = opened.fileKey

\* a file uploaded to one album has been attached to the other one
C11_Witness ==
    /\ Len(results) = 2
    /\ LastResult.outcome = "added"
    /\ Len(addCalls) = 1
    /\ catalog[addCalls[1].item.id].collections = Collections
    /\ addCalls[1].item.encryptedKey # catalog[addCalls[1].item.id].encryptedKey


\* the step in which a watcher run attaches a file recorded under another
\* album to its target album and returns
ReWrapStep ==
    /\ run.pc = "w_dup"
    /\ GetFileHashMapping(hashStore, run.hash).found
    /\ GetFileHashMapping(hashStore, run.hash).collectionID \in Collections
    /\ GetFileHashMapping(hashStore, run.hash).collectionID # run.target
    /\ Len(results') = Len(results) + 1
    /\ results'[Len(results')].outcome = "added"

\* C12: when the hash is recorded under album A and the target is another
\* album B, the run sends exactly one add_files_to_collection request, for B
\* and the recorded file id, uploads no object and sends no create_file, keeps
\* the file id, and afterwards the hash is recorded as (id, B).
C12_ReWrapScenario ==
    [][ReWrapStep =>
          LET mapping == GetFileHashMapping(hashStore, run.hash)
          IN  /\ Len(addCalls') = Len(addCalls) + 1
              /\ addCalls'[Len(addCalls')].collectionID = run.target
              /\ addCalls'[Len(addCalls')].item.id = mapping.fileID
              /\ objects' = objects
              /\ createCalls' = createCalls
              /\ Len(catalog') = Len(catalog)
              /\ results'[Len(results')].fileID = mapping.fileID
              /\ GetFileHashMapping(hashStore', run.hash) =
                     [found |-> TRUE, fileID |-> mapping.fileID,
                      collectionID |-> run.target]]_vars

\* C13: the line the watcher prints for a file names what happened to it:
\* uploaded after an upload, added to album after the file was attached to
\* another album, skipped when it was in the target album already, failed
\* after an error.
C13_MarkerMatchesOutcome ==
    \A i \in 1..Len(results) :
       results[i].kind = "watch" =>
          /\ results[i].outcome = "success" <=> results[i].marker = "uploaded"
          /\ results[i].outcome = "added" <=> results[i].marker = "addedToAlbum"
          /\ results[i].outcome = "inAlbum" <=> results[i].marker = "skipped"
          /\ results[i].outcome = "failed" <=> results[i].marker = "failed"


(***************************************************************************)
(* Temporary resources of the pipeline.                                    *)
(***************************************************************************)
\* C14: when no pipeline run is in progress, every run having returned by
\* success or by any failure, no temporary directory or file of a run
\* exists.
C14_NoTempsAfterReturn == run.pc = "idle" => temps = {}

\* a run that failed at the upload of the encrypted file and a run that
\* failed at the commit have returned
C14_Witness ==
    /\ run.pc = "idle"
    /\ temps = {}
    /\ Len(results) = 2
    /\ results[1].err = "failed to upload to S3"
    /\ results[2].err = "failed to finalize upload"


(***************************************************************************)
(* The deduplication check of Uploader.uploadFile.                         *)
(***************************************************************************)
\* the fileHashes bucket holds a value for the hash of the input file
HashPresent == ComputeFileHash(plaintext) \in DOMAIN hashStore

\* C24: at step 3 of Uploader.uploadFile, without ForceUpload and with the
\* hash of the file in the store, the run ends there: it reports skipped with
\* the stored file id (or the error of the lookup itself), and nothing is
\* encrypted, put into the object store or committed for it; with ForceUpload
\* the step goes on to the metadata without a result, whatever the store
\* holds, and a forced run never reports skipped.
C24_DedupAndForce ==
    /\ [](\A i \in 1..Len(results) :
             /\ results[i].force => results[i].outcome # "skipped"
             /\ results[i].outcome = "skipped" => ~results[i].created)
    /\ [][(run.kind = "upload" /\ run.pc = "dedup") =>
             IF run.force
             THEN run'.pc = "metadata" /\ results' = results
             ELSE HashPresent =>
                    /\ Len(results') = Len(results) + 1
                    /\ \/ /\ results'[Len(results')].outcome = "skipped"
                          /\ results'[Len(results')].fileID =
                                 hashStore[ComputeFileHash(plaintext)].fileID
                       \/ /\ results'[Len(results')].outcome = "failed"
                          /\ results'[Len(results')].err =
                                 "failed to check duplicate"
                    /\ pushLog = <<>> /\ outFile = <<>>
                    /\ <<objects, catalog, createCalls, hashStore>>' =
                           <<objects, catalog, createCalls, hashStore>>
          ]_vars

\* a forced run has committed the file a second time although the first
\* run's mapping was in the store, and an unforced run would have skipped it
C24_Witness ==
    /\ Len(results) = 2
    /\ results[1].kind = "upload" /\ results[1].outcome = "success"
    /\ results[1].stored
    /\ results[2].kind = "upload" /\ results[2].force
    /\ results[2].outcome = "success"
    /\ Len(catalog) = 2
    /\ createCalls = 2


(***************************************************************************)
(* The upload of the encrypted file to the object store.                   *)
(***************************************************************************)
\* the lengths of the parts ComputePartMD5s hashed
PartLengths(partMD5s) == [i \in 1..Len(partMD5s) |-> Len(partMD5s[i][2])]

\* C25: uploadFileToS3 sends a blob whose encrypted size is below the
\* multipart threshold with one PUT of the whole blob; for a blob of the
\* threshold size or more it goes the multipart way, with
\* ceil(encrypted size / part size) parts that partition the blob, every
\* part but the last of the full part size and the last one not empty.
C25_ModeBySize ==
    [][run.pc = "s3file" =>
          IF run.encryptedFileSize < multipartPartSize
          THEN /\ run'.pc \in {"s3thumb", "idle"}
               /\ run'.pc = "s3thumb" =>
                      /\ run'.fileObjectKey \in DOMAIN objects'
                      /\ objects'[run'.fileObjectKey] = outFile
          ELSE /\ run'.pc \in {"mp_part", "mp_complete", "idle"}
               /\ objects' = objects
               /\ run'.pc # "idle" =>
                      LET n == Len(run'.partMD5s)
                          lengths == PartLengths(run'.partMD5s)
                      IN  /\ n = CeilDiv(run.encryptedFileSize, multipartPartSize)
                          /\ \A i \in 1..(n - 1) : lengths[i] = multipartPartSize
                          /\ lengths[n] \in 1..multipartPartSize
                          /\ Concat([i \in 1..n |-> run'.partMD5s[i][2]]) =
                                 outFile
      ]_vars

\* a blob of exactly the threshold size goes the multipart way with one
\* part, and a larger one with two parts of which the last is short
C25_Witness ==
    /\ run.pc = "mp_part"
    /\ Len(results) = 1
    /\ results[1].outcome = "success"
    /\ run.encryptedFileSize > multipartPartSize
    /\ PartLengths(run.partMD5s) =
           <<multipartPartSize, run.encryptedFileSize - multipartPartSize>>

\* C26: in UploadMultipart the parts are PUT in ascending order, part j
\* with the j-th piece of the file under its own Content-MD5 and answered
\* with its own ETag; and when the part loop is over and the completion
\* request is built, every part the request lists has been PUT and has
\* the ETag that PUT returned.
C26_MultipartProtocol ==
    run.pc \in {"mp_part", "mp_complete"} =>
        /\ Len(run.staged) = run.part
        /\ \A j \in 1..run.part :
              /\ run.staged[j] = PartOf(outFile, j)
              /\ run.partMD5s[j] = MD5(run.staged[j])
              /\ run.etags[j] = j
        /\ run.pc = "mp_complete" =>
              \A i \in 1..Len(run.etags) : i <= run.part /\ run.etags[i] # 0


(***************************************************************************)
(* DebounceQueue.  Add and Stop run under d.mu and are one step each.  A   *)
(* timer created by time.AfterFunc is armed until the runtime starts its   *)
(* function in a goroutine of its own at the deadline ("fired") or         *)
(* Timer.Stop finds it still armed ("stopped"); Stop has no effect on a    *)
(* timer that has fired.  The function takes d.mu, deletes the entry of    *)
(* its path ("deleted") and then calls the callback ("called").            *)
(***************************************************************************)
\* NewDebounceQueue(duration)
DebounceDuration == 2

\* how many Add calls and how much time a behaviour covers
MaxAdds == 3
MaxTime == 6

\* no pipeline run is in progress and none has been
PipelineIdle ==
    /\ plaintext = <<>>
    /\ readerKind = "file"
    /\ enc = EncIdle
    /\ pushLog = <<>>
    /\ outFile = <<>>
    /\ dec = DecIdle
    /\ run = RunIdle
    /\ hashStore = EmptyMap
    /\ objects = EmptyMap
    /\ catalog = <<>>
    /\ createCalls = 0
    /\ addCalls = <<>>
    /\ getFileCalls = <<>>
    /\ watchFiles = NoProcessedFile
    /\ temps = {}
    /\ results = <<>>

\* Timer.Stop: an armed timer will not fire; any other timer is unaffected
TimerStop(timer) ==
    IF timer.state = "armed" THEN [timer EXCEPT !.state = "stopped"] ELSE timer

\* time.AfterFunc(d.duration, func)
AfterFunc(filePath) ==
    [path |-> filePath, addedAt |-> now, deadline |-> now + DebounceDuration,
     state |-> "armed", calledAt |-> 0, addedAfterStop |-> stopped,
     calledAfterStop |-> FALSE]

\* DebounceQueue.Add(filePath, callback)
Add ==
    /\ Len(timers) < MaxAdds
    /\ \E filePath \in DebouncePaths :
          LET existing == entries[filePath]
              cancelled == IF existing # 0
                           THEN [timers EXCEPT ![existing] = TimerStop(@)]
                           ELSE timers
          IN  /\ timers' = Append(cancelled, AfterFunc(filePath))
              /\ entries' = [entries EXCEPT ![filePath] = Len(timers) + 1]
    /\ UNCHANGED <<now, stopped, pipelineVars, watcherVars, fsVars>>

\* the runtime starts the function of a timer whose deadline has come
TimerFire ==
    /\ \E k \in 1..Len(timers) :
          /\ timers[k].state = "armed"
          /\ timers[k].deadline <= now
          /\ timers' = [timers EXCEPT ![k].state = "fired"]
    /\ UNCHANGED <<now, entries, stopped, pipelineVars, watcherVars, fsVars>>

\* the timer function: d.mu.Lock(); delete(d.entries, filePath); Unlock
TimerFuncDelete ==
    /\ \E k \in 1..Len(timers) :
          /\ timers[k].state = "fired"
          /\ entries' = [entries EXCEPT ![timers[k].path] = 0]
          /\ timers' = [timers EXCEPT ![k].state = "deleted"]
    /\ UNCHANGED <<now, stopped, pipelineVars, watcherVars, fsVars>>

\* the timer function: callback(filePath)
TimerFuncCallback ==
    /\ \E k \in 1..Len(timers) :
          /\ timers[k].state = "deleted"
          /\ timers' = [timers EXCEPT ![k].state = "called",
                                      ![k].calledAt = now,
                                      ![k].calledAfterStop = stopped]
    /\ UNCHANGED <<now, entries, stopped, pipelineVars, watcherVars, fsVars>>

\* DebounceQueue.Stop: Timer.Stop on every entry, then a new map
Stop ==
    /\ timers' = [k \in 1..Len(timers) |->
                     IF entries[timers[k].path] = k THEN TimerStop(timers[k])
                     ELSE timers[k]]
    /\ entries' = NoEntries
    /\ stopped' = TRUE

\* Stop, called once
DebounceStop ==
    /\ ~stopped
    /\ Stop
    /\ UNCHANGED <<now, pipelineVars, watcherVars, fsVars>>

\* time passes; a timer fires when its deadline comes, not later
Tick ==
    /\ now < MaxTime
    /\ \A k \in 1..Len(timers) :
          timers[k].state = "armed" => timers[k].deadline > now
    /\ now' = now + 1
    /\ UNCHANGED <<entries, timers, stopped, pipelineVars, watcherVars, fsVars>>

InitDebounce == PipelineIdle /\ WatchIdle /\ OrchIdle

NextDebounce ==
    \/ Add
    \/ TimerFire
    \/ TimerFuncDelete
    \/ TimerFuncCallback
    \/ DebounceStop
    \/ Tick

SpecDebounce == InitDebounce /\ [][NextDebounce]_vars


(***************************************************************************)
(* Properties of the debounce queue.                                       *)
(***************************************************************************)
\* timer k was followed by an Add for the same path before its deadline
Superseded(k) ==
    \E j \in (k + 1)..Len(timers) :
       /\ timers[j].path = timers[k].path
       /\ timers[j].addedAt < timers[k].deadline

\* C15: of the events added for one path, each within the debounce duration
\* of the previous one, only the latest one leads to a call of the callback:
\* the timer of an event that was followed in time by another event for the
\* same path never calls the callback.
C15_DebounceOnce ==
    \A k \in 1..Len(timers) : timers[k].state = "called" => ~Superseded(k)


\* C16: once Stop has returned, the callback is not called for any path
\* that was added before Stop.
C16_NoCallbackAfterStop ==
    \A k \in 1..Len(timers) :
       (timers[k].state = "called" /\ ~timers[k].addedAfterStop)
          => ~timers[k].calledAfterStop


(***************************************************************************)
(* Watcher: runWatch calls PerformInitialScan, Start and, on a signal,     *)
(* Shutdown on the main goroutine; the debounce queue calls processFile    *)
(* from its timer goroutines; processFile starts one goroutine per file.   *)
(* What a goroutine does with its file is the pipeline of SpecUpload.      *)
(***************************************************************************)
\* --workers
Workers == 1

\* how many goroutines processFile starts in a behaviour
MaxTasks == 3

\* what filepath.Walk finds in the watched folder
InitialScans == {<<>>, <<"a">>, <<"a", "b">>}

\* processFile: if w.processingFiles[filePath] { return }
AlreadyProcessing_never(filePath) == FALSE
AlreadyProcessing(filePath) == filePath \in processingFiles

\* Watcher.processFile up to the go statement
processFile(filePath) ==
    IF AlreadyProcessing(filePath)
    THEN UNCHANGED <<processingFiles, uploadWorkers, tasks>>
    ELSE /\ processingFiles' = processingFiles \cup {filePath}
         /\ uploadWorkers' = uploadWorkers + 1
         /\ tasks' = Append(tasks, [path |-> filePath, state |-> "processing"])

\* the states of a goroutine in which it works on its file: the deferred
\* delete(w.processingFiles, filePath) has not run yet
InFlight == {"processing", "saving", "deleting"}

\* the process runs: runWatch has not returned
Alive == mainPc \notin {"new", "exited", "returned"}

\* PerformInitialScan: one iteration of the loop over files
ScanProcessFile ==
    /\ mainPc = "scan"
    /\ scanFiles # <<>>
    /\ processFile(Head(scanFiles))
    /\ scanFiles' = Tail(scanFiles)
    /\ UNCHANGED <<mainPc, fsClosed, shutdownHow, shutdownSave, dispatchLog,
                   debounceVars, pipelineVars, fsVars>>

\* Watcher.Start: AddRecursive, FileWatcher.Start; runWatch exits on error
WatcherStart ==
    /\ mainPc = "scan"
    /\ scanFiles = <<>>
    /\ \E ok \in BOOLEAN : mainPc' = IF ok THEN "watching" ELSE "exited"
    /\ UNCHANGED <<scanFiles, processingFiles, tasks, uploadWorkers, fsClosed,
                   shutdownHow, shutdownSave, dispatchLog, debounceVars,
                   pipelineVars, fsVars>>

\* the callback onFileEvent gave to the debounce queue, called from a timer
\* goroutine
onFileEventCallback ==
    /\ Alive
    /\ mainPc # "scan"
    /\ Len(tasks) < MaxTasks
    /\ Len(dispatchLog) < MaxTasks
    /\ \E filePath \in DebouncePaths :
          /\ processFile(filePath)
          /\ dispatchLog' =
                Append(dispatchLog,
                       [path |-> filePath,
                        task |-> IF AlreadyProcessing(filePath) THEN 0
                                 ELSE Len(tasks) + 1])
    /\ UNCHANGED <<mainPc, scanFiles, fsClosed, shutdownHow, shutdownSave,
                   debounceVars, pipelineVars, fsVars>>

\* the goroutine of processFile: processFile...Mode, the error line
TaskProcess ==
    /\ Alive
    /\ \E k \in 1..Len(tasks) :
          /\ tasks[k].state = "processing"
          /\ tasks' = [tasks EXCEPT ![k].state = "saving"]
    /\ UNCHANGED <<mainPc, scanFiles, processingFiles, uploadWorkers, fsClosed,
                   shutdownHow, shutdownSave, dispatchLog, debounceVars,
                   pipelineVars, fsVars>>

\* the goroutine of processFile: LastProcessed, SaveWatchState
TaskSaveWatchState ==
    /\ Alive
    /\ \E k \in 1..Len(tasks) :
          /\ tasks[k].state = "saving"
          /\ tasks' = [tasks EXCEPT ![k].state = "deleting"]
    /\ UNCHANGED <<mainPc, scanFiles, processingFiles, uploadWorkers, fsClosed,
                   shutdownHow, shutdownSave, dispatchLog, debounceVars,
                   pipelineVars, fsVars>>

\* the goroutine of processFile: deferred delete(w.processingFiles, filePath)
TaskDelete ==
    /\ Alive
    /\ \E k \in 1..Len(tasks) :
          /\ tasks[k].state = "deleting"
          /\ tasks' = [tasks EXCEPT ![k].state = "finishing"]
          /\ processingFiles' = processingFiles \ {tasks[k].path}
    /\ UNCHANGED <<mainPc, scanFiles, uploadWorkers, fsClosed, shutdownHow,
                   shutdownSave, dispatchLog, debounceVars, pipelineVars,
                   fsVars>>

\* the goroutine of processFile: deferred w.uploadWorkers.Done()
TaskDone ==
    /\ Alive
    /\ \E k \in 1..Len(tasks) :
          /\ tasks[k].state = "finishing"
          /\ tasks' = [tasks EXCEPT ![k].state = "done"]
          /\ uploadWorkers' = uploadWorkers - 1
    /\ UNCHANGED <<mainPc, scanFiles, processingFiles, fsClosed, shutdownHow,
                   shutdownSave, dispatchLog, debounceVars, pipelineVars,
                   fsVars>>

\* Shutdown, called on a signal: w.fileWatcher.Close()
ShutdownClose ==
    /\ mainPc = "watching"
    /\ mainPc' = "stopDebounce"
    /\ fsClosed' = TRUE
    /\ UNCHANGED <<scanFiles, processingFiles, tasks, uploadWorkers,
                   shutdownHow, shutdownSave, dispatchLog, debounceVars,
                   pipelineVars, fsVars>>

\* Shutdown: w.debounceQueue.Stop()
ShutdownStopDebounce ==
    /\ mainPc = "stopDebounce"
    /\ mainPc' = "wait"
    /\ Stop
    /\ UNCHANGED <<now, scanFiles, processingFiles, tasks, uploadWorkers,
                   fsClosed, shutdownHow, shutdownSave, dispatchLog,
                   pipelineVars, fsVars>>

\* Shutdown: where it goes on after its select
AfterWait_noSaveOnTimeout(how) == IF how = "timeout" THEN "returned" ELSE "save"
AfterWait(how) == "save"

\* Shutdown: case <-done, closed once uploadWorkers.Wait() returned
ShutdownDrained ==
    /\ mainPc = "wait"
    /\ uploadWorkers = 0
    /\ mainPc' = AfterWait("drained")
    /\ shutdownHow' = "drained"
    /\ UNCHANGED <<scanFiles, processingFiles, tasks, uploadWorkers, fsClosed,
                   shutdownSave, dispatchLog, debounceVars, pipelineVars,
                   fsVars>>

\* Shutdown: case <-time.After(30 * time.Second)
ShutdownTimeout ==
    /\ mainPc = "wait"
    /\ mainPc' = AfterWait("timeout")
    /\ shutdownHow' = "timeout"
    /\ UNCHANGED <<scanFiles, processingFiles, tasks, uploadWorkers, fsClosed,
                   shutdownSave, dispatchLog, debounceVars, pipelineVars,
                   fsVars>>

\* Shutdown: SaveWatchState and return
ShutdownSaveWatchState ==
    /\ mainPc = "save"
    /\ mainPc' = "returned"
    /\ \E ok \in BOOLEAN : shutdownSave' = IF ok THEN "saved" ELSE "failed"
    /\ UNCHANGED <<scanFiles, processingFiles, tasks, uploadWorkers, fsClosed,
                   shutdownHow, dispatchLog, debounceVars, pipelineVars,
                   fsVars>>

\* runWatch after NewWatcher, with or without --initial-scan
InitWatcher ==
    /\ PipelineIdle
    /\ DebounceIdle
    /\ WatcherIdle
    /\ FileWatcherIdle
    /\ mainPc = "scan"
    /\ scanFiles \in InitialScans
    /\ OrchIdle

NextWatcher ==
    \/ ScanProcessFile
    \/ WatcherStart
    \/ onFileEventCallback
    \/ TaskProcess
    \/ TaskSaveWatchState
    \/ TaskDelete
    \/ TaskDone
    \/ ShutdownClose
    \/ ShutdownStopDebounce
    \/ ShutdownDrained
    \/ ShutdownTimeout
    \/ ShutdownSaveWatchState

SpecWatcher == InitWatcher /\ [][NextWatcher]_vars

(***************************************************************************)
(* Properties of the watcher.                                              *)
(***************************************************************************)
\* the goroutines working on a path
InFlightFor(filePath) ==
    {k \in 1..Len(tasks) : tasks[k].path = filePath /\ tasks[k].state \in InFlight}

InFlightTasks == {k \in 1..Len(tasks) : tasks[k].state \in InFlight}

\* C17: at no time are two goroutines working on the same path, whether
\* processFile was called by the initial scan or by the debounce queue.
C17_OneTaskPerPath ==
    \A filePath \in DebouncePaths : Cardinality(InFlightFor(filePath)) <= 1

\* a path is processed for the second time, after its first goroutine has
\* finished, while the other path is being processed too
C17_Witness ==
    /\ Len(tasks) = 3
    /\ tasks[1].path = tasks[3].path
    /\ tasks[1].state = "done"
    /\ tasks[2].state \in InFlight
    /\ tasks[3].state \in InFlight

\* C19: Shutdown closes the file system subscription, then stops the
\* debounce queue, then waits until the uploads have drained or the timeout
\* has come, then saves the watch state; it saves it in both cases.
C19_ShutdownOrder ==
    /\ [](/\ stopped => fsClosed
          /\ shutdownHow # "none" => stopped
          /\ shutdownSave # "none" => shutdownHow \in {"drained", "timeout"}
          /\ mainPc = "returned" => shutdownSave \in {"saved", "failed"})
    /\ [][/\ shutdownHow' = "drained" /\ shutdownHow = "none"
                => InFlightTasks = {}
          /\ shutdownSave' # shutdownSave
                => shutdownSave = "none" /\ mainPc' = "returned"]_vars

\* Shutdown has returned after the timeout, with an upload still going on
\* and the watch state saved
C19_Witness ==
    /\ mainPc = "returned"
    /\ shutdownHow = "timeout"
    /\ shutdownSave = "saved"
    /\ InFlightTasks # {}

\* C20: at no time are more than --workers goroutines working on files.
C20_AtMostWorkersInFlight == Cardinality(InFlightTasks) <= Workers


(***************************************************************************)
(* FileWatcher.  fsnotify reports the creation of an entry, and a write to *)
(* a file, in a directory it watches at that moment, and nothing about a   *)
(* directory it does not watch; watches are not recursive.  The event loop *)
(* takes one event at a time from the Events channel.                      *)
(***************************************************************************)
NewDir == "root/d"

WatchFiles == {"root/y.jpg", "root/d/x.jpg", "root/d/n.txt"}

\* how many writes to existing files a behaviour covers
MaxWrites == 1

\* filepath.Dir
Dir(path) == IF path \in {"root/d/x.jpg", "root/d/n.txt"} THEN NewDir ELSE Root

\* uploader.IsImageFile: the extension is in supportedImageExtensions
IsImageFile(path) == path \in {"root/y.jpg", "root/d/x.jpg"}

\* the Events channel after fsnotify has seen op on path
Notify(path, op) ==
    IF Dir(path) \in watched
    THEN Append(events, [name |-> path, op |-> op])
    ELSE events

\* someone creates a directory under the watched root
CreateDir ==
    /\ NewDir \notin fsDirs
    /\ fsDirs' = fsDirs \cup {NewDir}
    /\ events' = Notify(NewDir, "create")
    /\ UNCHANGED <<fsFiles, fsWrites, watched, watchErrors, forwarded,
                   dispatched, debounceVars, watcherVars, pipelineVars>>

\* someone creates a file, with its content, in an existing directory
CreateFile ==
    /\ \E path \in WatchFiles \ fsFiles :
          /\ Dir(path) \in fsDirs
          /\ fsFiles' = fsFiles \cup {path}
          /\ events' = Notify(path, "create")
    /\ UNCHANGED <<fsDirs, fsWrites, watched, watchErrors, forwarded,
                   dispatched, debounceVars, watcherVars, pipelineVars>>

\* someone writes to an existing file again
WriteFile ==
    /\ fsWrites < MaxWrites
    /\ \E path \in fsFiles : events' = Notify(path, "write")
    /\ fsWrites' = fsWrites + 1
    /\ UNCHANGED <<fsDirs, fsFiles, watched, watchErrors, forwarded,
                   dispatched, debounceVars, watcherVars, pipelineVars>>

\* eventLoop: one event from the channel, handleEvent with addDirectory
handleEvent ==
    /\ events # <<>>
    /\ events' = Tail(events)
    /\ LET name == Head(events).name
       IN  IF name \in fsDirs
           THEN /\ \E ok \in BOOLEAN :
                      IF name \in watched
                      THEN UNCHANGED <<watched, watchErrors>>
                      ELSE IF ok
                      THEN /\ watched' = watched \cup {name}
                           /\ UNCHANGED watchErrors
                      ELSE /\ watchErrors' = watchErrors \cup {name}
                           /\ UNCHANGED watched
                /\ UNCHANGED forwarded
           ELSE /\ forwarded' = IF IsImageFile(name)
                                THEN forwarded \cup {name}
                                ELSE forwarded
                /\ UNCHANGED <<watched, watchErrors>>
    /\ UNCHANGED <<fsDirs, fsFiles, fsWrites, dispatched, debounceVars,
                   watcherVars, pipelineVars>>

\* the debounce queue calls the callback of onFileEvent for a path it was
\* given: processFile
Dispatch ==
    /\ \E path \in forwarded \ dispatched :
          dispatched' = dispatched \cup {path}
    /\ UNCHANGED <<fsDirs, fsFiles, fsWrites, watched, watchErrors, events,
                   forwarded, debounceVars, watcherVars, pipelineVars>>

\* the watcher after Start, watching a root that has no subdirectory
InitFileWatcher ==
    /\ PipelineIdle
    /\ DebounceIdle
    /\ WatcherIdle
    /\ FileWatcherIdle
    /\ mainPc = "watching"
    /\ scanFiles = <<>>
    /\ OrchIdle

NextFileWatcher ==
    \/ CreateDir
    \/ CreateFile
    \/ WriteFile
    \/ handleEvent
    \/ Dispatch

\* the event loop and the timers of the debounce queue keep running; nobody
\* has to create or write anything
SpecFileWatcher ==
    /\ InitFileWatcher
    /\ [][NextFileWatcher]_vars
    /\ WF_vars(handleEvent)
    /\ WF_vars(Dispatch)

(***************************************************************************)
(* Properties of the file watcher.                                         *)
(***************************************************************************)
\* C18: an image file created in a directory that was itself created under
\* the watched root after start-up is eventually given to the debounce
\* queue and dispatched, unless the directory could not be watched.
C18_FileInNewDirDispatched ==
    ("root/d/x.jpg" \in fsFiles)
        ~> ("root/d/x.jpg" \in dispatched \/ NewDir \in watchErrors)


(***************************************************************************)
(* The fileHashes bucket as its callers see it: GetFileHashMapping,        *)
(* SaveFileHash and SaveFileHashMapping called in any order on a bucket    *)
(* that may hold values written by earlier versions.                       *)
(***************************************************************************)
\* number of calls made on the bucket
MaxStoreOps == 3

StoreHashes == {"h1", "h2"}
StoreFileIDs == {1, 2}

\* the value earlier versions wrote: the file id as a decimal string
LegacyValue(fileID) == [fmt |-> "decimal", fileID |-> fileID]

\* every variable but the bucket and the log of its calls
storeRest == <<plaintext, readerKind, enc, pushLog, outFile, dec, run, objects,
               catalog, createCalls, addCalls,
               getFileCalls, watchFiles, temps, results,
               debounceVars, watcherVars, fsVars, albumVars, route, batchVars>>

StoreCall(op, hash, fileID, collectionID, ok, result) ==
    [op |-> op, hash |-> hash, fileID |-> fileID,
     collectionID |-> collectionID, ok |-> ok, result |-> result]

\* ClICtrl.GetFileHashMapping(hash)
GetFileHashMappingCall ==
    /\ Len(storeLog) < MaxStoreOps
    /\ \E hash \in StoreHashes :
          storeLog' = Append(storeLog,
                             StoreCall("get", hash, 0, 0, TRUE,
                                       GetFileHashMapping(hashStore, hash)))
    /\ UNCHANGED <<hashStore, storeRest>>

\* ClICtrl.SaveFileHash(hash, fileID); PutValue may fail
SaveFileHashCall ==
    /\ Len(storeLog) < MaxStoreOps
    /\ \E hash \in StoreHashes, fileID \in StoreFileIDs, ok \in BOOLEAN :
          /\ hashStore' = IF ok THEN SaveFileHash(hashStore, hash, fileID)
                          ELSE hashStore
          /\ storeLog' = Append(storeLog,
                                StoreCall("save", hash, fileID, 0, ok, NoMapping))
    /\ UNCHANGED storeRest

\* ClICtrl.SaveFileHashMapping(hash, fileID, collectionID); PutValue may fail
SaveFileHashMappingCall ==
    /\ Len(storeLog) < MaxStoreOps
    /\ \E hash \in StoreHashes, fileID \in StoreFileIDs,
          collectionID \in Collections, ok \in BOOLEAN :
          /\ hashStore' = IF ok
                          THEN SaveFileHashMapping(hashStore, hash, fileID,
                                                   collectionID)
                          ELSE hashStore
          /\ storeLog' = Append(storeLog,
                                StoreCall("saveMapping", hash, fileID,
                                          collectionID, ok, NoMapping))
    /\ UNCHANGED storeRest

\* the bucket is empty or holds legacy values
InitStore ==
    /\ \E present \in SUBSET StoreHashes :
          hashStore \in [present -> {LegacyValue(f) : f \in StoreFileIDs}]
    /\ plaintext = <<>>
    /\ readerKind = "file"
    /\ enc = EncIdle
    /\ pushLog = <<>>
    /\ outFile = <<>>
    /\ dec = DecIdle
    /\ run = RunIdle
    /\ objects = EmptyMap
    /\ catalog = <<>>
    /\ createCalls = 0
    /\ addCalls = <<>>
    /\ getFileCalls = <<>>
    /\ watchFiles = NoProcessedFile
    /\ temps = {}
    /\ results = <<>>
    /\ WatchIdle
    /\ OrchIdle

NextStore ==
    \/ GetFileHashMappingCall
    \/ SaveFileHashCall
    \/ SaveFileHashMappingCall

SpecStore == InitStore /\ [][NextStore]_vars

\* C27: a lookup answers absent for a hash without a value, (file id, 0)
\* for a legacy decimal value and the stored (file id, collection id) for a
\* structured value; every write that succeeds leaves the structured value
\* of its arguments under the hash and touches no other hash; and a lookup
\* that follows SaveFileHashMapping(h, f, c) answers (f, c).
C27_StoreEncoding ==
    /\ [](\A k \in 2..Len(storeLog) :
             (/\ storeLog[k].op = "get"
              /\ storeLog[k - 1].op = "saveMapping" /\ storeLog[k - 1].ok
              /\ storeLog[k - 1].hash = storeLog[k].hash) =>
                 storeLog[k].result =
                     [found |-> TRUE, fileID |-> storeLog[k - 1].fileID,
                      collectionID |-> storeLog[k - 1].collectionID])
    /\ [][Len(storeLog') > Len(storeLog) =>
             LET call == storeLog'[Len(storeLog')]
                 h == call.hash
             IN  IF call.op = "get"
                 THEN call.result =
                        IF h \notin DOMAIN hashStore
                        THEN [found |-> FALSE, fileID |-> 0, collectionID |-> 0]
                        ELSE IF hashStore[h].fmt = "decimal"
                        THEN [found |-> TRUE, fileID |-> hashStore[h].fileID,
                              collectionID |-> 0]
                        ELSE [found |-> TRUE, fileID |-> hashStore[h].fileID,
                              collectionID |-> hashStore[h].collectionID]
                 ELSE call.ok =>
                        /\ DOMAIN hashStore' = DOMAIN hashStore \cup {h}
                        /\ hashStore'[h] =
                              [fmt |-> "json", fileID |-> call.fileID,
                               collectionID |-> call.collectionID]
                        /\ \A g \in DOMAIN hashStore \ {h} :
                              hashStore'[g] = hashStore[g]
         ]_vars

\* a legacy value was read as (1, 0), replaced by SaveFileHashMapping with
\* (2, 2) and read back
C27_Witness ==
    /\ Len(storeLog) = 3
    /\ storeLog[1].op = "get"
    /\ storeLog[1].result = [found |-> TRUE, fileID |-> 1, collectionID |-> 0]
    /\ storeLog[2] = StoreCall("saveMapping", storeLog[1].hash, 2, 2, TRUE,
                               NoMapping)
    /\ storeLog[3].op = "get" /\ storeLog[3].hash = storeLog[1].hash
    /\ storeLog[3].result = [found |-> TRUE, fileID |-> 2, collectionID |-> 2]


(***************************************************************************)
(* GetOrCreateAlbum(albumName, createIfMissing) against the collections    *)
(* the control plane holds.                                                *)
(***************************************************************************)
\* number of collections the account has before the call
MaxCollections == 2

AlbumNames == {"A", "B"}

\* the album asked for
RequestedAlbum == "A"

\* a collection as GetAllCollections returns it, with the outcome that
\* keyHolder.GetCollectionKey and decryptCollectionName have on it
RemoteCollections ==
    [isDeleted : BOOLEAN, keyOk : BOOLEAN, nameOk : BOOLEAN, name : AlbumNames]

\* the accounts the call may find: the id of a collection is its position
RemoteLists == UNION {[1..n -> RemoteCollections] : n \in 0..MaxCollections}

\* the loop of GetOrCreateAlbum passes over a deleted collection and over
\* one whose key or name does not decrypt
Skipped_onlyDeleted(collection) == collection.isDeleted
Skipped(collection) ==
    collection.isDeleted \/ ~collection.keyOk \/ ~collection.nameOk

\* the loop of GetOrCreateAlbum: the index of the collection it returns,
\* 0 when it falls through
RECURSIVE FindAlbum(_, _, _)
FindAlbum(collections, albumName, i) ==
    IF i > Len(collections) THEN 0
    ELSE IF ~Skipped(collections[i]) /\ collections[i].name = albumName
    THEN i
    ELSE FindAlbum(collections, albumName, i + 1)

\* createAlbum: the random collection key of the n-th create_collection
NewCollectionKey(n) == <<"newCollectionKey", n>>

\* createAlbum: the request, key sealed under the master key and name
\* sealed under the new key
CreateCollectionRequest(albumName, collectionKey) ==
    [encryptedKey |-> [box |-> "masterKey", sealed |-> collectionKey],
     encryptedName |-> [box |-> collectionKey, sealed |-> albumName]]

AlbumResult(ok, id, key, err) == [ok |-> ok, id |-> id, key |-> key, err |-> err]

\* every variable but those of the album lookup
albumRest == <<plaintext, readerKind, enc, pushLog, outFile, dec, upVars,
               debounceVars, watcherVars, fsVars, storeLog, route, batchVars,
               albumCache, albumTasks>>

\* GetOrCreateAlbum: client.GetAllCollections
GetAllCollections ==
    /\ album.pc = "fetch"
    /\ \E ok \in BOOLEAN :
          album' = IF ok
                   THEN [album EXCEPT !.pc = "search",
                                      !.collections = remoteCollections]
                   ELSE [album EXCEPT
                           !.pc = "done",
                           !.result = AlbumResult(FALSE, 0, <<>>,
                                                  "failed to fetch collections")]
    /\ UNCHANGED <<remoteCollections, createCollectionCalls, albumRest>>

\* GetOrCreateAlbum: the loop over the collections and the test of
\* createIfMissing
GetOrCreateAlbumSearch ==
    /\ album.pc = "search"
    /\ LET i == FindAlbum(album.collections, album.albumName, 1)
       IN  album' =
              IF i # 0
              THEN [album EXCEPT !.pc = "done",
                                 !.result = AlbumResult(TRUE, i,
                                                        CollectionKeyOf(i), "")]
              ELSE IF ~album.createIfMissing
              THEN [album EXCEPT !.pc = "done",
                                 !.result = AlbumResult(FALSE, 0, <<>>,
                                                        "album not found")]
              ELSE [album EXCEPT !.pc = "create"]
    /\ UNCHANGED <<remoteCollections, createCollectionCalls, albumRest>>

\* createAlbum: a new key, the request, client.CreateCollection
createAlbum ==
    /\ album.pc = "create"
    /\ LET collectionKey == NewCollectionKey(Len(createCollectionCalls) + 1)
       IN  /\ createCollectionCalls' =
                 Append(createCollectionCalls,
                        CreateCollectionRequest(album.albumName, collectionKey))
           /\ \E ok \in BOOLEAN :
                 IF ok
                 THEN /\ remoteCollections' =
                            Append(remoteCollections,
                                   [isDeleted |-> FALSE, keyOk |-> TRUE,
                                    nameOk |-> TRUE, name |-> album.albumName])
                      /\ album' = [album EXCEPT
                                     !.pc = "done",
                                     !.result =
                                         AlbumResult(TRUE,
                                                     Len(remoteCollections) + 1,
                                                     collectionKey, "")]
                 ELSE /\ UNCHANGED remoteCollections
                      /\ album' = [album EXCEPT
                                     !.pc = "done",
                                     !.result =
                                         AlbumResult(FALSE, 0, <<>>,
                                                     "failed to create collection")]
    /\ UNCHANGED albumRest

InitAlbum ==
    /\ PipelineIdle
    /\ WatchIdle
    /\ storeLog = <<>>
    /\ route = [pc |-> "idle"]
    /\ BatchIdle
    /\ remoteCollections \in RemoteLists
    /\ createCollectionCalls = <<>>
    /\ albumCache = <<>>
    /\ albumTasks = <<>>
    /\ \E createIfMissing \in BOOLEAN :
          album = [pc |-> "fetch", albumName |-> RequestedAlbum,
                   createIfMissing |-> createIfMissing, collections |-> <<>>,
                   result |-> AlbumResult(FALSE, 0, <<>>, "")]

NextAlbum ==
    \/ GetAllCollections
    \/ GetOrCreateAlbumSearch
    \/ createAlbum

SpecAlbum == InitAlbum /\ [][NextAlbum]_vars

\* the collections of the answer that are not deleted, whose key and name
\* decrypt and whose name is the one asked for
MatchingCollections ==
    {i \in 1..Len(album.collections) :
        /\ ~album.collections[i].isDeleted
        /\ album.collections[i].keyOk /\ album.collections[i].nameOk
        /\ album.collections[i].name = album.albumName}

\* C28: when GetOrCreateAlbum has returned after a successful fetch: if
\* some collection that is not deleted and decrypts has the name, the first
\* of them is returned with its key and no create_collection was sent; if
\* none has and createIfMissing is false, the call failed with album not
\* found and no create_collection was sent; otherwise exactly one
\* create_collection was sent and, when it succeeded, the key returned is
\* the new key that request sealed, under which it also sealed the name.
C28_GetOrCreateAlbum ==
    (album.pc = "done" /\ album.result.err # "failed to fetch collections") =>
        IF MatchingCollections # {}
        THEN /\ album.result.ok
             /\ album.result.id \in MatchingCollections
             /\ \A i \in MatchingCollections : album.result.id <= i
             /\ album.result.key = CollectionKeyOf(album.result.id)
             /\ createCollectionCalls = <<>>
        ELSE IF ~album.createIfMissing
        THEN /\ ~album.result.ok
             /\ album.result.err = "album not found"
             /\ createCollectionCalls = <<>>
        ELSE /\ Len(createCollectionCalls) = 1
             /\ createCollectionCalls[1].encryptedName.sealed = album.albumName
             /\ createCollectionCalls[1].encryptedName.box =
                    createCollectionCalls[1].encryptedKey.sealed
             /\ \A i \in 1..Len(album.collections) :
                    createCollectionCalls[1].encryptedKey.sealed #
                        CollectionKeyOf(i)
             /\ album.result.ok =>
                    /\ album.result.key =
                           createCollectionCalls[1].encryptedKey.sealed
                    /\ album.result.id \notin 1..Len(album.collections)

\* the account has a deleted album and an undecryptable album of the name
\* asked for; both were passed over and the album was created
C28_Witness ==
    /\ album.pc = "done"
    /\ album.result.ok
    /\ Len(album.collections) = 2
    /\ album.collections[1].isDeleted
    /\ album.collections[1].name = album.albumName
    /\ ~album.collections[2].isDeleted /\ ~album.collections[2].keyOk
    /\ album.collections[2].name = album.albumName
    /\ Len(createCollectionCalls) = 1
    /\ album.result.key = NewCollectionKey(1)


(***************************************************************************)
(* Folder-as-Album routing: processFileFolderAlbumsMode up to the album    *)
(* name it hands to getOrCreateAlbum.  A string is the sequence of its     *)
(* characters; the separator is that of Linux.                             *)
(***************************************************************************)
\* longest directory name
MaxNameLen == 4

\* uploader.DefaultAlbumName, "CLI Uploads"
DefaultAlbumName == <<"C", "L", "I", " ", "U", "p", "l", "o", "a", "d", "s">>

\* Watcher.state.WatchPath
WatchPath == <<"/", "W">>

\* characters of a directory name: a letter, space, tab, backslash
NameChars == {"a", " ", "\t", "\\"}

RECURSIVE Names(_)
Names(n) ==
    IF n = 0 THEN {}
    ELSE {<<c>> : c \in NameChars}
         \cup {Append(s, c) : s \in Names(n - 1), c \in NameChars}

\* the directories below the root a file may be in, as lists of names: the
\* root itself, one level, two levels of short names
WatchedDirs ==
    {<<>>} \cup {<<n>> : n \in Names(MaxNameLen)}
           \cup {<<n1, n2>> : n1 \in Names(1), n2 \in Names(1)}

\* strings.Join(elems, sep)
RECURSIVE Join(_, _)
Join(elems, sep) ==
    IF elems = <<>> THEN <<>>
    ELSE IF Len(elems) = 1 THEN elems[1]
    ELSE elems[1] \o sep \o Join(Tail(elems), sep)

\* unicode.IsSpace
IsSpace(c) == c \in {" ", "\t"}

\* strings.TrimSpace
TrimSpace(s) ==
    LET keep == {i \in 1..Len(s) : ~IsSpace(s[i])}
    IN  IF keep = {} THEN <<>>
        ELSE SubSeq(s, CHOOSE i \in keep : \A j \in keep : i <= j,
                       CHOOSE i \in keep : \A j \in keep : j <= i)

\* strings.ReplaceAll(s, old, new) for one-character old and new
ReplaceAll(s, old, new) == [i \in 1..Len(s) |-> IF s[i] = old THEN new ELSE s[i]]

\* strings.Fields: the maximal runs of characters that are not white space
Fields_whole(s) == <<s>>
RECURSIVE Fields(_)
Fields(s) ==
    IF s = <<>> THEN <<>>
    ELSE IF IsSpace(Head(s)) THEN Fields(Tail(s))
    ELSE LET n == CHOOSE k \in 1..Len(s) :
                     /\ \A j \in 1..k : ~IsSpace(s[j])
                     /\ k = Len(s) \/ IsSpace(s[k + 1])
         IN  <<SubSeq(s, 1, n)>> \o Fields(SubSeq(s, n + 1, Len(s)))

\* SanitizeAlbumName
SanitizeAlbumName(folderName) ==
    LET trimmed == TrimSpace(folderName)
        replaced == ReplaceAll(ReplaceAll(trimmed, "/", " "), "\\", " ")
        name == Join(Fields(replaced), <<" ">>)
    IN  IF name = <<>> THEN DefaultAlbumName ELSE name

\* filepath.Rel(basepath, targpath) for a clean target below the base
FilepathRel(basepath, targpath) ==
    SubSeq(targpath, Len(basepath) + 2, Len(targpath))

\* filepath.Dir of a clean relative path
FilepathDir(path) ==
    LET seps == {i \in 1..Len(path) : path[i] = "/"}
    IN  IF seps = {} THEN <<".">>
        ELSE SubSeq(path, 1, (CHOOSE i \in seps : \A j \in seps : j <= i) - 1)

\* every variable but the routing
routeRest == <<plaintext, readerKind, enc, pushLog, outFile, dec, upVars,
               debounceVars, watcherVars, fsVars, storeLog, albumVars,
               batchVars>>

\* processFileFolderAlbumsMode: the album name given to getOrCreateAlbum
processFileFolderAlbumsMode ==
    /\ route.pc = "start"
    /\ LET relPath == FilepathRel(WatchPath, route.filePath)
           dirName == FilepathDir(relPath)
       IN  route' = [route EXCEPT
                       !.pc = "done",
                       !.albumName = IF dirName # <<".">> /\ dirName # <<>>
                                     THEN SanitizeAlbumName(dirName)
                                     ELSE DefaultAlbumName]
    /\ UNCHANGED routeRest

\* a file x in one of the directories below the root
InitRoute ==
    /\ PipelineIdle
    /\ WatchIdle
    /\ storeLog = <<>>
    /\ AlbumIdle
    /\ BatchIdle
    /\ \E dirs \in WatchedDirs :
          route = [pc |-> "start", dirs |-> dirs,
                   filePath |-> Join(<<WatchPath>> \o dirs \o <<<<"x">>>>,
                                     <<"/">>),
                   albumName |-> <<>>]

NextRoute == processFileFolderAlbumsMode

SpecRoute == InitRoute /\ [][NextRoute]_vars

\* white space and path separators
Blank(c) == c \in {" ", "\t", "/", "\\"}

\* s read character by character: blanks before the first and after the
\* last other character dropped, every run of blanks between two other
\* characters turned into one space
RECURSIVE Squeeze(_, _, _)
Squeeze(s, out, gap) ==
    IF s = <<>> THEN out
    ELSE IF Blank(Head(s)) THEN Squeeze(Tail(s), out, out # <<>>)
    ELSE Squeeze(Tail(s),
                 (IF gap THEN Append(out, " ") ELSE out) \o <<Head(s)>>,
                 FALSE)

\* C29: the album name of a file is made from the path of its directory
\* relative to the watched root: blanks at the ends dropped, every run of
\* white space and path separators turned into one space, "CLI Uploads"
\* when nothing is left; a file directly under the root goes to
\* "CLI Uploads"; the name is never empty, neither starts nor ends with a
\* space and has no path separator, no tab and no two spaces in a row.
C29_FolderAlbumName ==
    route.pc = "done" =>
        LET name == route.albumName
            squeezed == Squeeze(Join(route.dirs, <<"/">>), <<>>, FALSE)
        IN  /\ name = IF squeezed = <<>> THEN DefaultAlbumName ELSE squeezed
            /\ route.dirs = <<>> => name = DefaultAlbumName
            /\ name # <<>>
            /\ name[1] # " " /\ name[Len(name)] # " "
            /\ \A i \in 1..Len(name) : name[i] \notin {"/", "\\", "\t"}
            /\ \A i \in 1..(Len(name) - 1) : ~(name[i] = " " /\ name[i + 1] = " ")

\* a directory whose name has two spaces in a row between two letters
C29_Witness ==
    /\ route.pc = "done"
    /\ route.dirs = <<<<"a", " ", " ", "a">>>>
    /\ route.filePath =
          <<"/", "W", "/", "a", " ", " ", "a", "/", "x">>
    /\ route.albumName = <<"a", " ", "a">>


(***************************************************************************)
(* Uploader.UploadFiles: the main goroutine, the uploadWorker goroutines   *)
(* it starts, the goroutine that waits for them, and the two buffered      *)
(* channels between them.  The pipeline of one file (Uploader.uploadFile)  *)
(* is cut at the calls that leave the process: the local steps 1 to 6, the *)
(* control plane's upload URL, the PUT to the object store, create_file.   *)
(* The context the Uploader was made with may be cancelled at any time.    *)
(***************************************************************************)
\* most files in one call
MaxFiles == 2
\* largest config.Workers
MaxWorkers == 2

\* the arguments of UploadFiles: no file, one file, ..., with distinct names
FileLists == {[i \in 1..n |-> i] : n \in 0..MaxFiles}

\* the content hashes of the files of a batch: two paths may hold the same
\* content (collectFiles drops a path only when it was seen before)
BatchHashes == {"h1", "h2"}
FileHashes(files) ==
    {hashes \in [1..Len(files) -> BatchHashes] :
        files # <<>> => hashes[1] = "h1"}

\* the sizes of the files of a batch, as os.Stat and the metadata report
\* them: one below the read buffer, one that fills it
BatchSizes == {1, encryptionBufferSize}
FileSizes(files) == [1..Len(files) -> BatchSizes]

\* UploadFiles: totalBytes += info.Size() over the files
RECURSIVE TotalBytes(_)
TotalBytes(sizes) ==
    IF sizes = <<>> THEN 0
    ELSE sizes[1] + TotalBytes(Tail(sizes))

\* NewProgressTracker(len(files), totalBytes)
NewProgressTracker(totalBytes) ==
    [totalBytes |-> totalBytes, uploadedBytes |-> 0]

\* ProgressTracker.AddUploadedBytes: p.uploadedBytes += bytes
AddUploadedBytes(p, bytes) == [p EXCEPT !.uploadedBytes = @ + bytes]

\* EncryptFile: every chunk of at most one buffer gains the 17 bytes of its
\* tag and authenticator; a file that ends on a buffer boundary gets an
\* empty final chunk
EncryptedFileSize(fileSize) ==
    fileSize
    + XChaCha20Poly1305IetfABYTES * (fileSize \div encryptionBufferSize + 1)

\* UploadMultipart: the bytes of the first sent parts of the encrypted file
BytesOfParts(fileSize, sent) == Min(sent * multipartPartSize, fileSize)

\* how many parts of a file uploadFileToS3 may have sent when it returns:
\* none by the single PUT, which does not tell the tracker; any number up to
\* the part count by UploadMultipart, which returns at the first failure
PartsSent(fileSize) ==
    IF UsesMultipart(EncryptedFileSize(fileSize))
    THEN 0..PartCount(EncryptedFileSize(fileSize))
    ELSE {0}

\* uploadFileToS3 returned no error: every part was sent
AllSent(fileSize, sent) ==
    \A n \in PartsSent(fileSize) : n <= sent

NoResult == [file |-> 0, outcome |-> "none", err |-> ""]

UploadResult(file, outcome, err) ==
    [file |-> file, outcome |-> outcome, err |-> err]

\* UploadFiles returns no summary with an error
NilSummary == [nil |-> TRUE]

\* UploadFiles: summary := &UploadSummary{TotalFiles: len(files)}
NewSummary(files) ==
    [total |-> Len(files), completed |-> 0, failed |-> 0, skipped |-> 0,
     errors |-> <<>>]

\* UploadFiles: the body of the loop over resultChan
Collect_noErrorEntry(summary, result) ==
    IF result.outcome = "success" THEN [summary EXCEPT !.completed = @ + 1]
    ELSE IF result.outcome = "skipped" THEN [summary EXCEPT !.skipped = @ + 1]
    ELSE [summary EXCEPT !.failed = @ + 1]
Collect(summary, result) ==
    IF result.outcome = "success" THEN [summary EXCEPT !.completed = @ + 1]
    ELSE IF result.outcome = "skipped" THEN [summary EXCEPT !.skipped = @ + 1]
    ELSE [summary EXCEPT !.failed = @ + 1,
                         !.errors = Append(@, [fileName |-> result.file,
                                               err |-> result.err])]

\* UploadFiles after GetOrCreateAlbum: an error is returned at once
AfterAlbum_ignored(ok) == "spawn"
AfterAlbum(ok) == IF ok THEN "spawn" ELSE "returned"

\* UploadFiles: close(fileChan) once every file is queued
CloseFileChan_forgotten(ch) == ch
CloseFileChan(ch) == [ch EXCEPT !.closed = TRUE]

\* a call made with the context of the Uploader fails once the context is
\* cancelled, and may fail for other reasons before
CtxCallOutcomes == IF ctxCancelled THEN {FALSE} ELSE BOOLEAN

\* every variable but those of UploadFiles
\* the fileHashes bucket the workers share, and the create_file requests
batchStore == <<hashStore, createCalls>>

batchRest == <<plaintext, readerKind, enc, pushLog, outFile, dec, run, objects,
               catalog, addCalls,
               getFileCalls, watchFiles, temps, results, debounceVars,
               watcherVars, fsVars, storeLog, albumVars, route>>

\* the worker w leaves uploadFile with a result
WorkerReturns(w, outcome, err, done) ==
    /\ workerPool' = [workerPool EXCEPT
                        ![w].pc = "send",
                        ![w].result = UploadResult(workerPool[w].file, outcome,
                                                   err)]
    /\ fileLog' = [fileLog EXCEPT ![workerPool[w].file].outcome = outcome,
                                  ![workerPool[w].file].done = @ \cup done]

\* the worker w goes on to the next step of uploadFile
WorkerContinues(w, pc, done) ==
    /\ workerPool' = [workerPool EXCEPT ![w].pc = pc]
    /\ fileLog' = [fileLog EXCEPT ![workerPool[w].file].done = @ \cup done]

\* UploadFiles: the check of len(files) and GetOrCreateAlbum
UploadFilesGetOrCreateAlbum ==
    /\ batch.pc = "album"
    /\ IF batch.files = <<>>
       THEN batch' = [batch EXCEPT !.pc = "returned",
                                   !.err = "no files to upload"]
       ELSE \E ok \in CtxCallOutcomes :
               batch' = [batch EXCEPT
                           !.pc = AfterAlbum(ok),
                           !.album = IF ok THEN "resolved" ELSE "failed",
                           !.err = IF ok THEN ""
                                   ELSE "failed to get or create album"]
    /\ UNCHANGED <<fileChan, resultChan, workerPool, wg, ctxCancelled, fileLog,
                   batchStore, batchRest, progressTrack>>

\* UploadFiles: the channels and the go statements of the worker pool
UploadFilesStartWorkers ==
    /\ batch.pc = "spawn"
    /\ batch' = [batch EXCEPT !.pc = "queue"]
    /\ workerPool' = [w \in 1..batch.workers |->
                         [pc |-> "range", file |-> 0, fileID |-> 0,
                          result |-> NoResult]]
    /\ wg' = batch.workers
    /\ progressTrack' = NewProgressTracker(TotalBytes(batch.sizes))
    /\ UNCHANGED <<fileChan, resultChan, ctxCancelled, fileLog,
                   batchStore, batchRest>>

\* UploadFiles: fileChan <- file for the next file, then close(fileChan) and
\* the goroutine of wg.Wait
UploadFilesQueue ==
    /\ batch.pc = "queue"
    /\ IF batch.queued < Len(batch.files)
       THEN /\ Len(fileChan.buf) < Len(batch.files)
            /\ fileChan' = [fileChan EXCEPT
                              !.buf = Append(@, batch.files[batch.queued + 1])]
            /\ batch' = [batch EXCEPT !.queued = @ + 1]
       ELSE /\ fileChan' = CloseFileChan(fileChan)
            /\ batch' = [batch EXCEPT !.pc = "collect", !.waiter = "waiting",
                                      !.summary = NewSummary(batch.files)]
    /\ UNCHANGED <<resultChan, workerPool, wg, ctxCancelled, fileLog,
                   batchStore, batchRest, progressTrack>>

\* the goroutine of UploadFiles: wg.Wait, close(resultChan)
UploadFilesWait ==
    /\ batch.waiter = "waiting"
    /\ wg = 0
    /\ batch' = [batch EXCEPT !.waiter = "done"]
    /\ resultChan' = [resultChan EXCEPT !.closed = TRUE]
    /\ UNCHANGED <<fileChan, workerPool, wg, ctxCancelled, fileLog,
                   batchStore, batchRest, progressTrack>>

\* UploadFiles: one iteration of the loop over resultChan, or its end and
\* the return of the summary
UploadFilesCollect ==
    /\ batch.pc = "collect"
    /\ resultChan.buf # <<>> \/ resultChan.closed
    /\ IF resultChan.buf # <<>>
       THEN /\ batch' = [batch EXCEPT
                           !.summary = Collect(@, Head(resultChan.buf))]
            /\ resultChan' = [resultChan EXCEPT !.buf = Tail(@)]
       ELSE /\ batch' = [batch EXCEPT !.pc = "returned"]
            /\ UNCHANGED resultChan
    /\ UNCHANGED <<fileChan, workerPool, wg, ctxCancelled, fileLog,
                   batchStore, batchRest, progressTrack>>

\* uploadWorker: for filePath := range fileChan, and the deferred wg.Done
uploadWorkerRange ==
    \E w \in DOMAIN workerPool :
        /\ workerPool[w].pc = "range"
        /\ fileChan.buf # <<>> \/ fileChan.closed
        /\ IF fileChan.buf # <<>>
           THEN /\ workerPool' = [workerPool EXCEPT
                                    ![w].pc = "local",
                                    ![w].file = Head(fileChan.buf)]
                /\ fileChan' = [fileChan EXCEPT !.buf = Tail(@)]
                /\ fileLog' = [fileLog EXCEPT
                                 ![Head(fileChan.buf)].takenBy = Append(@, w)]
                /\ UNCHANGED wg
           ELSE /\ workerPool' = [workerPool EXCEPT ![w].pc = "exited"]
                /\ wg' = wg - 1
                /\ UNCHANGED <<fileChan, fileLog>>
        /\ UNCHANGED <<batch, resultChan, ctxCancelled, batchStore, batchRest, progressTrack>>

\* uploadFile, steps 1 to 6: validation, hash, deduplication check,
\* metadata, thumbnail, encryption
uploadFileLocalSteps ==
    \E w \in DOMAIN workerPool :
        /\ workerPool[w].pc = "local"
        /\ \E outcome \in {"invalid", "failed", "encrypted"} :
              IF outcome = "invalid"
              THEN WorkerReturns(w, "failed", "validation failed", {})
              ELSE IF /\ ~batch.force
                      /\ CheckLocalDuplicate(
                            hashStore, batch.hashes[workerPool[w].file]).found
              THEN WorkerReturns(w, "skipped", "", {"hashed"})
              ELSE IF outcome = "failed"
              THEN WorkerReturns(w, "failed", "failed to encrypt data",
                                 {"hashed"})
              ELSE WorkerContinues(w, "getUploadURL", {"hashed"})
        /\ UNCHANGED <<batch, fileChan, resultChan, wg, ctxCancelled,
                       batchStore, batchRest, progressTrack>>

\* uploadFile, step 7: client.GetUploadURL(u.ctx, ...)
uploadFileGetUploadURL ==
    \E w \in DOMAIN workerPool :
        /\ workerPool[w].pc = "getUploadURL"
        /\ \E ok \in CtxCallOutcomes :
              IF ok THEN WorkerContinues(w, "putS3", {})
              ELSE WorkerReturns(w, "failed", "failed to upload to S3", {})
        /\ UNCHANGED <<batch, fileChan, resultChan, wg, ctxCancelled,
                       batchStore, batchRest, progressTrack>>

\* uploadFile, step 7: uploadToS3, requests made without the context; the
\* encrypted file goes by one PUT or, from MultipartMin on, part by part
\* with the tracker told of every part sent, then the thumbnail by one PUT
uploadFileUploadToS3 ==
    \E w \in DOMAIN workerPool :
        /\ workerPool[w].pc = "putS3"
        /\ \E sent \in PartsSent(batch.sizes[workerPool[w].file]),
              ok \in BOOLEAN :
              /\ progressTrack' =
                    AddUploadedBytes(
                        progressTrack,
                        BytesOfParts(
                            EncryptedFileSize(batch.sizes[workerPool[w].file]),
                            sent))
              /\ IF ok /\ AllSent(batch.sizes[workerPool[w].file], sent)
                 THEN WorkerContinues(w, "createFile", {"uploaded"})
                 ELSE WorkerReturns(w, "failed", "failed to upload to S3", {})
        /\ UNCHANGED <<batch, fileChan, resultChan, wg, ctxCancelled,
                       batchStore, batchRest>>

\* uploadFile, step 8: finalizeUpload, client.CreateFile(u.ctx, ...)
uploadFileFinalize ==
    \E w \in DOMAIN workerPool :
        /\ workerPool[w].pc = "createFile"
        /\ \E ok \in CtxCallOutcomes :
              IF ok
              THEN /\ createCalls' = createCalls + 1
                   /\ workerPool' = [workerPool EXCEPT
                                       ![w].pc = "storeHash",
                                       ![w].fileID = createCalls + 1]
                   /\ fileLog' = [fileLog EXCEPT
                                    ![workerPool[w].file].done =
                                        @ \cup {"committed"}]
              ELSE /\ WorkerReturns(w, "failed", "failed to finalize upload",
                                    {})
                   /\ UNCHANGED createCalls
        /\ UNCHANGED <<batch, fileChan, resultChan, wg, ctxCancelled,
                       hashStore, batchRest, progressTrack>>

\* uploadFile, step 9: StoreHashMapping, whose error is only printed
uploadFileStoreHashMapping ==
    \E w \in DOMAIN workerPool :
        /\ workerPool[w].pc = "storeHash"
        /\ \E ok \in BOOLEAN :
              IF ok
              THEN /\ hashStore' =
                         StoreHashMapping(hashStore,
                                          batch.hashes[workerPool[w].file],
                                          workerPool[w].fileID)
                   /\ WorkerReturns(w, "success", "", {"stored"})
              ELSE /\ WorkerReturns(w, "success", "", {})
                   /\ UNCHANGED hashStore
        /\ progressTrack' =
              AddUploadedBytes(progressTrack,
                               batch.sizes[workerPool[w].file])
        /\ UNCHANGED <<batch, fileChan, resultChan, wg, ctxCancelled,
                       createCalls, batchRest>>

\* uploadWorker: resultChan <- result
uploadWorkerSend ==
    \E w \in DOMAIN workerPool :
        /\ workerPool[w].pc = "send"
        /\ Len(resultChan.buf) < Len(batch.files)
        /\ resultChan' = [resultChan EXCEPT
                            !.buf = Append(@, workerPool[w].result)]
        /\ workerPool' = [workerPool EXCEPT ![w].pc = "range",
                                            ![w].result = NoResult]
        /\ UNCHANGED <<batch, fileChan, wg, ctxCancelled, fileLog,
                       batchStore, batchRest, progressTrack>>

\* the context given to NewUploader is cancelled
CancelContext ==
    /\ ~ctxCancelled
    /\ batch.pc # "returned"
    /\ ctxCancelled' = TRUE
    /\ UNCHANGED <<batch, fileChan, resultChan, workerPool, wg, fileLog,
                   batchStore, batchRest, progressTrack>>

InitBatch ==
    /\ PipelineIdle
    /\ WatchIdle
    /\ storeLog = <<>>
    /\ AlbumIdle
    /\ route = [pc |-> "idle"]
    /\ \E files \in FileLists, workers \in 0..MaxWorkers, force \in BOOLEAN :
       \E hashes \in FileHashes(files), sizes \in FileSizes(files) :
          /\ batch = [pc |-> "album", files |-> files, workers |-> workers,
                      force |-> force, hashes |-> hashes, sizes |-> sizes,
                      album |-> "pending", queued |-> 0,
                      waiter |-> "none", err |-> "", summary |-> NilSummary]
          /\ fileLog = [f \in 1..Len(files) |->
                           [takenBy |-> <<>>, done |-> {}, outcome |-> "none"]]
    /\ fileChan = [buf |-> <<>>, closed |-> FALSE]
    /\ resultChan = [buf |-> <<>>, closed |-> FALSE]
    /\ workerPool = <<>>
    /\ wg = 0
    /\ ctxCancelled = FALSE
    /\ progressTrack = [totalBytes |-> 0, uploadedBytes |-> 0]

\* the steps of the goroutines of UploadFiles
BatchStep ==
    \/ UploadFilesGetOrCreateAlbum
    \/ UploadFilesStartWorkers
    \/ UploadFilesQueue
    \/ UploadFilesWait
    \/ UploadFilesCollect
    \/ uploadWorkerRange
    \/ uploadFileLocalSteps
    \/ uploadFileGetUploadURL
    \/ uploadFileUploadToS3
    \/ uploadFileFinalize
    \/ uploadFileStoreHashMapping
    \/ uploadWorkerSend

NextBatch ==
    \/ BatchStep
    \/ CancelContext

SpecBatch == InitBatch /\ [][NextBatch]_vars

\* the scheduler runs a goroutine that can take a step, and every call the
\* pipeline of a file makes returns
SpecBatchFair == SpecBatch /\ WF_vars(BatchStep)



\* the files of the batch whose pipeline ended with the given outcome
FilesWithOutcome(outcome) ==
    {f \in DOMAIN fileLog : fileLog[f].outcome = outcome}

\* C23: when GetOrCreateAlbum fails in UploadFiles the batch is aborted: the
\* call has returned the error and no summary, no worker was started, no
\* file was queued or taken, and no file was hashed, uploaded or committed.
C23_AlbumFailureAborts ==
    batch.pc # "idle" /\ batch.album = "failed"
    => /\ batch.pc = "returned"
       /\ batch.err = "failed to get or create album"
       /\ batch.summary = NilSummary
       /\ workerPool = <<>> /\ wg = 0 /\ batch.waiter = "none"
       /\ fileChan.buf = <<>> /\ resultChan.buf = <<>>
       /\ \A f \in DOMAIN fileLog :
             /\ fileLog[f].takenBy = <<>>
             /\ fileLog[f].done = {}
             /\ fileLog[f].outcome = "none"

\* a batch of two files and two workers whose album could not be resolved
C23_Witness ==
    /\ batch.pc = "returned"
    /\ batch.album = "failed"
    /\ Len(batch.files) = MaxFiles
    /\ batch.workers = MaxWorkers
    /\ ~ctxCancelled

\* C22: when UploadFiles returns a summary, every file whose pipeline failed
\* at some step is counted in FailedFiles and has exactly one entry, with
\* its error, in the error list; the other counts are those of the other
\* outcomes, and with a worker configured every file reached an outcome.
C22_PerFileErrorsContained ==
    batch.pc = "returned" /\ batch.err = ""
    => LET errors == batch.summary.errors IN
       /\ batch.summary.failed = Cardinality(FilesWithOutcome("failed"))
       /\ Len(errors) = Cardinality(FilesWithOutcome("failed"))
       /\ {errors[i].fileName : i \in 1..Len(errors)}
             = FilesWithOutcome("failed")
       /\ \A i \in 1..Len(errors) : errors[i].err # ""
       /\ batch.summary.completed = Cardinality(FilesWithOutcome("success"))
       /\ batch.summary.skipped = Cardinality(FilesWithOutcome("skipped"))
       /\ batch.workers >= 1 => FilesWithOutcome("none") = {}

\* the first file failed at the object store, the second was committed
C22_Witness ==
    /\ batch.pc = "returned"
    /\ Len(batch.files) = 2
    /\ fileLog[1].outcome = "failed"
    /\ fileLog[1].done = {"hashed"}
    /\ fileLog[2].outcome = "success"
    /\ batch.summary.failed = 1
    /\ batch.summary.completed = 1
    /\ ~ctxCancelled



\* C30: with a worker configured and every step of a file's pipeline
\* returning, UploadFiles returns; no path is ever taken twice; and when the
\* summary is returned every path was taken by exactly one worker, every
\* worker has left its loop, both channels are closed and empty, and the
\* summary accounts for every file.
C30_UploadFilesTerminates ==
    /\ (batch.workers >= 1) ~> (batch.pc = "returned")
    /\ [](\A f \in DOMAIN fileLog : Len(fileLog[f].takenBy) <= 1)
    /\ [](batch.pc = "returned" /\ batch.err = "" /\ batch.workers >= 1
          => /\ \A f \in DOMAIN fileLog : Len(fileLog[f].takenBy) = 1
             /\ \A w \in DOMAIN workerPool : workerPool[w].pc = "exited"
             /\ wg = 0
             /\ fileChan = [buf |-> <<>>, closed |-> TRUE]
             /\ resultChan = [buf |-> <<>>, closed |-> TRUE]
             /\ batch.summary.total = Len(batch.files)
             /\ batch.summary.completed + batch.summary.failed
                   + batch.summary.skipped = Len(batch.files))

\* two workers took one file each and the summary was returned
C30_Witness ==
    /\ batch.pc = "returned"
    /\ batch.err = ""
    /\ batch.workers = 2
    /\ Len(batch.files) = 2
    /\ fileLog[1].takenBy = <<2>>
    /\ fileLog[2].takenBy = <<1>>
    /\ \A w \in DOMAIN workerPool : workerPool[w].pc = "exited"

\* C21: once the context is cancelled no worker takes a further file from
\* fileChan, and a worker that is in a call to the control plane or to the
\* object store leaves it with a failed result.
C21_CancellationPropagates ==
    [][ctxCancelled
       => \A w \in DOMAIN workerPool :
             /\ workerPool[w].pc = "range" => workerPool'[w].pc # "local"
             /\ (/\ workerPool[w].pc \in {"getUploadURL", "putS3", "createFile"}
                 /\ workerPool'[w].pc # workerPool[w].pc)
                => /\ workerPool'[w].pc = "send"
                   /\ workerPool'[w].result.outcome = "failed"]_vars



\* C31: whenever UploadFiles returns a summary, CompletedFiles +
\* FailedFiles + SkippedFiles equals TotalFiles and the error list has
\* FailedFiles entries, whatever config.Workers is.
C31_SummaryAccounting ==
    batch.pc = "returned" /\ batch.err = ""
    => /\ batch.summary.completed + batch.summary.failed
             + batch.summary.skipped = batch.summary.total
       /\ Len(batch.summary.errors) = batch.summary.failed



\* C32: in EncryptFile no chunk is pushed after a chunk tagged FINAL, and
\* when EncryptFile has returned the blob has exactly one FINAL chunk, the
\* last one, however the reader delivers the plaintext.
C32_NothingAfterFinal ==
    /\ \A k \in 1..(Len(pushLog) - 1) : pushLog[k].tag # TagFinal
    /\ enc.pc = "done" /\ plaintext # <<>>
       => /\ pushLog # <<>>
          /\ pushLog[Len(pushLog)].tag = TagFinal



\* C33: in a batch without force, two different paths whose contents have
\* the same hash are never both committed by create_file, as long as no
\* write of a hash mapping has failed.
C33_OneCommitPerHash ==
    (/\ batch.pc # "idle"
     /\ ~batch.force
     /\ \A f \in DOMAIN fileLog :
           fileLog[f].outcome = "success" => "stored" \in fileLog[f].done)
    => \A f, g \in DOMAIN fileLog :
          (/\ f # g
           /\ batch.hashes[f] = batch.hashes[g]
           /\ "committed" \in fileLog[f].done)
          => "committed" \notin fileLog[g].done



(***************************************************************************)
(* Watcher.getOrCreateAlbum, called by the goroutines that processFile     *)
(* starts, one for each file: the cache lookup under the read lock, the    *)
(* call of GetOrCreateAlbum with createIfMissing = true outside any lock,  *)
(* the cache write under the write lock.                                   *)
(***************************************************************************)
\* number of files processed at the same time
MaxAlbumTasks == 2

\* AlbumInfo{ID, Key}
AlbumInfo(id, key) == [id |-> id, key |-> key]

AlbumTask(albumName) ==
    [pc |-> "lookup", albumName |-> albumName, info |-> AlbumInfo(0, <<>>),
     err |-> ""]

\* every variable but those of the watcher's album cache
albumCacheRest == <<plaintext, readerKind, enc, pushLog, outFile, dec, upVars,
                    debounceVars, watcherVars, fsVars, storeLog, route,
                    batchVars, album>>

\* Watcher.getOrCreateAlbum: the lookup in albumCache under RLock
getOrCreateAlbumLookup ==
    \E t \in DOMAIN albumTasks :
        /\ albumTasks[t].pc = "lookup"
        /\ albumTasks' =
              IF albumTasks[t].albumName \in DOMAIN albumCache
              THEN [albumTasks EXCEPT
                      ![t].pc = "done",
                      ![t].info = albumCache[albumTasks[t].albumName]]
              ELSE [albumTasks EXCEPT ![t].pc = "fetch"]
        /\ UNCHANGED <<albumCache, remoteCollections, createCollectionCalls,
                       albumCacheRest>>

\* GetOrCreateAlbum(..., true): GetAllCollections and the loop over its
\* answer
getOrCreateAlbumFetch ==
    \E t \in DOMAIN albumTasks :
        /\ albumTasks[t].pc = "fetch"
        /\ \E ok \in BOOLEAN :
              LET i == FindAlbum(remoteCollections, albumTasks[t].albumName, 1)
              IN  albumTasks' =
                     IF ~ok
                     THEN [albumTasks EXCEPT
                             ![t].pc = "done",
                             ![t].err = "failed to fetch collections"]
                     ELSE IF i # 0
                     THEN [albumTasks EXCEPT
                             ![t].pc = "store",
                             ![t].info = AlbumInfo(i, CollectionKeyOf(i))]
                     ELSE [albumTasks EXCEPT ![t].pc = "create"]
        /\ UNCHANGED <<albumCache, remoteCollections, createCollectionCalls,
                       albumCacheRest>>

\* GetOrCreateAlbum(..., true): createAlbum
getOrCreateAlbumCreate ==
    \E t \in DOMAIN albumTasks :
        /\ albumTasks[t].pc = "create"
        /\ LET collectionKey ==
                   NewCollectionKey(Len(createCollectionCalls) + 1)
           IN  /\ createCollectionCalls' =
                     Append(createCollectionCalls,
                            CreateCollectionRequest(albumTasks[t].albumName,
                                                    collectionKey))
               /\ \E ok \in BOOLEAN :
                     IF ok
                     THEN /\ remoteCollections' =
                                Append(remoteCollections,
                                       [isDeleted |-> FALSE, keyOk |-> TRUE,
                                        nameOk |-> TRUE,
                                        name |-> albumTasks[t].albumName])
                          /\ albumTasks' =
                                [albumTasks EXCEPT
                                   ![t].pc = "store",
                                   ![t].info =
                                       AlbumInfo(Len(remoteCollections) + 1,
                                                 collectionKey)]
                     ELSE /\ UNCHANGED remoteCollections
                          /\ albumTasks' =
                                [albumTasks EXCEPT
                                   ![t].pc = "done",
                                   ![t].err = "failed to create collection"]
        /\ UNCHANGED <<albumCache, albumCacheRest>>

\* Watcher.getOrCreateAlbum: the write to albumCache under Lock
getOrCreateAlbumStore ==
    \E t \in DOMAIN albumTasks :
        /\ albumTasks[t].pc = "store"
        /\ albumCache' = MapPut(albumCache, albumTasks[t].albumName,
                                albumTasks[t].info)
        /\ albumTasks' = [albumTasks EXCEPT ![t].pc = "done"]
        /\ UNCHANGED <<remoteCollections, createCollectionCalls,
                       albumCacheRest>>

InitAlbumCache ==
    /\ PipelineIdle
    /\ WatchIdle
    /\ storeLog = <<>>
    /\ route = [pc |-> "idle"]
    /\ BatchIdle
    /\ album = [pc |-> "idle"]
    /\ remoteCollections \in RemoteLists
    /\ createCollectionCalls = <<>>
    /\ albumCache = <<>>
    /\ albumTasks \in {[t \in 1..MaxAlbumTasks |-> AlbumTask(names[t])] :
                         names \in [1..MaxAlbumTasks -> AlbumNames]}

NextAlbumCache ==
    \/ getOrCreateAlbumLookup
    \/ getOrCreateAlbumFetch
    \/ getOrCreateAlbumCreate
    \/ getOrCreateAlbumStore

SpecAlbumCache == InitAlbumCache /\ [][NextAlbumCache]_vars

\* C34: as long as no create_collection has failed, the watcher has sent at
\* most one create_collection for an album name, and the tasks that got an
\* album of one name got the same collection id and key.
C34_OneCollectionPerName ==
    /\ (\A t \in DOMAIN albumTasks :
           albumTasks[t].err # "failed to create collection")
       => \A i, j \in 1..Len(createCollectionCalls) :
             createCollectionCalls[i].encryptedName.sealed =
                createCollectionCalls[j].encryptedName.sealed
             => i = j
    /\ \A t, u \in DOMAIN albumTasks :
          (/\ albumTasks[t].pc = "done" /\ albumTasks[t].err = ""
           /\ albumTasks[u].pc = "done" /\ albumTasks[u].err = ""
           /\ albumTasks[t].albumName = albumTasks[u].albumName)
          => albumTasks[t].info = albumTasks[u].info



\* C35: until Stop is called, the entries map holds a path exactly when a
\* timer of that path is armed or has fired without having run its delete
\* yet, and every armed timer is the one the entry of its path points to,
\* so that a later Add or Stop can stop it.
C35_EntriesMatchTimers ==
    ~stopped
    => /\ \A p \in DebouncePaths :
             entries[p] # 0
             <=> \E k \in 1..Len(timers) :
                    /\ timers[k].path = p
                    /\ timers[k].state \in {"armed", "fired"}
       /\ \A k \in 1..Len(timers) :
             timers[k].state = "armed" => entries[timers[k].path] = k



\* C36: the duplicate handler never sends get_file for collection 0.
C36_NoGetFileInCollectionZero ==
    \A i \in 1..Len(getFileCalls) : getFileCalls[i].collectionID # 0



\* C37: when the completion request of a multipart upload is built, it
\* lists exactly the parts that were PUT, their number is the number of
\* part MD5s computed for the file, and no listed part has an empty ETag,
\* whatever number of part URLs the control plane returned.
C37_CompletionWellFormed ==
    run.pc = "mp_complete" =>
        /\ Len(run.etags) = run.part
        /\ run.part = Len(run.partMD5s)
        /\ \A i \in 1..Len(run.etags) : run.etags[i] # 0



\* C38: every call of processFile by the debounce queue starts a run of
\* its path, also when an earlier run of the path is still in flight; and
\* a path is in the processing set only while a run of it is in flight.
C38_NoDispatchLost ==
    /\ \A i \in 1..Len(dispatchLog) : dispatchLog[i].task # 0
    /\ \A p \in processingFiles :
          \E k \in 1..Len(tasks) :
             tasks[k].path = p /\ tasks[k].state \in InFlight



\* C39: once Shutdown has seen the uploads drain, no goroutine of
\* processFile is working or starts, not even for a debounce callback that
\* was on its way when the queue was stopped.
C39_QuietAfterDrain == shutdownHow = "drained" => InFlightTasks = {}



\* the sum of the sizes of the files of the batch that were uploaded
RECURSIVE CompletedBytes(_)
CompletedBytes(n) ==
    IF n = 0 THEN 0
    ELSE CompletedBytes(n - 1)
         + (IF fileLog[n].outcome = "success" THEN batch.sizes[n] ELSE 0)

\* C40: the uploaded bytes of the progress tracker never exceed its total
\* bytes, and when UploadFiles returns its summary they are the sum of the
\* sizes of the files uploaded, by single PUT and by multipart alike.
C40_TrackerBytes ==
    /\ progressTrack.uploadedBytes <= progressTrack.totalBytes
    /\ batch.pc = "returned" /\ batch.err = ""
       => progressTrack.uploadedBytes = CompletedBytes(Len(batch.files))

====
